---- MODULE Spec2Model ----
(***************************************************************************)
(* A model of AutoQuanta's analysis core: the cross-validated trainer      *)
(* (src/Analysis/core/trainer.py), the preprocessing pipeline              *)
(* (src/Analysis/core/preprocessor.py), the training entry point of the    *)
(* API (src/Analysis/train_api.py), the helper functions they call, and    *)
(* the HTTP server that runs the trainings (src/fastapi_server.py).        *)
(*                                                                         *)
(* Each subsystem has its own variables and its own specification; a       *)
(* specification leaves the other subsystem's variables at their initial   *)
(* value.                                                                  *)
(***************************************************************************)
EXTENDS Integers, Sequences, FiniteSets, TLC

VARIABLES
    \* ---- ModelTrainer.train (core/trainer.py) ----
    tpc,          \* position of the train call: idle, training, done, raised
    tcfg,         \* the TrainingConfig passed to train
    tn,           \* number of rows of X
    tcv,          \* the fold each row is held out in (the seeded shuffle of cv)
    all_results,  \* train's local list all_results
    best_model,   \* train's local best_model (NoModel until selected)
    \* ---- OutlierHandler (core/preprocessor.py) ----
    oh,           \* the handler: method, threshold, strategy, outlier_bounds_, outlier_stats_
    ohLast,       \* the last call on it and what it returned
    \* ---- AutoPreprocessor (core/preprocessor.py) ----
    ap,           \* the preprocessor: constructor arguments and fitted attributes
    apLast,       \* the last call on it and what it returned or raised
    apDone,       \* whether some fit or fit_transform call has returned normally
    \* ---- train_from_api (train_api.py) ----
    api,          \* position of the call, its arguments, locals, log and result
    \* ---- DataValidator (core/preprocessor.py) ----
    dv,           \* the validator: constructor arguments and fitted attributes
    dvLast,       \* the last call on it: the caller's table before and after, and what was returned
    \* ---- helper functions ----
    fn,           \* the last function called, its arguments and its result
    \* ---- the HTTP server (fastapi_server.py) ----
    sess,         \* one /train_async session: its status, temporary file, background task,
                  \* event queue and the client's stream
    req           \* one /train request: its temporary file and its response

tvars == <<tpc, tcfg, tn, tcv, all_results, best_model>>
ovars == <<oh, ohLast>>
pvars == <<ap, apLast, apDone>>
avars == <<api>>
dvars == <<dv, dvLast>>
fvars == <<fn>>
svars == <<sess, req>>
vars == <<tpc, tcfg, tn, tcv, all_results, best_model, oh, ohLast, ap, apLast, apDone,
          api, dv, dvLast, fn, sess, req>>

\* What an action of one subsystem leaves alone.
notTrainer == <<oh, ohLast, ap, apLast, apDone, api, dv, dvLast, fn, sess, req>>
notOutlier == <<tpc, tcfg, tn, tcv, all_results, best_model, ap, apLast, apDone, api, dv, dvLast, fn, sess, req>>
notPreprocessor == <<tpc, tcfg, tn, tcv, all_results, best_model, oh, ohLast, api, dv, dvLast, fn, sess, req>>
notApi == <<tpc, tcfg, tn, tcv, all_results, best_model, oh, ohLast, ap, apLast, apDone, dv, dvLast, fn, sess, req>>
notValidator == <<tpc, tcfg, tn, tcv, all_results, best_model, oh, ohLast, ap, apLast, apDone, api, fn, sess, req>>
notServer == <<tpc, tcfg, tn, tcv, all_results, best_model, oh, ohLast, ap, apLast, apDone,
               api, dv, dvLast, fn>>
notFunctions == <<tpc, tcfg, tn, tcv, all_results, best_model, oh, ohLast, ap, apLast, apDone, api, dv, dvLast, sess, req>>

(***************************************************************************)
(* Bounds of the model.                                                    *)
(***************************************************************************)
MaxTrainRows == 3      \* rows of the training matrix: 1..MaxTrainRows (numbered from 0)
MaxFolds == 2          \* cv_folds: 2..MaxFolds
MaxModels == 2         \* length of models_to_try: 0..MaxModels
MaxScore == 1          \* mean cross-validation scores: 0..MaxScore
MaxRows == 2           \* rows of a table given to a transformer: 1..MaxRows

(***************************************************************************)
(* Helpers on sequences and sets.                                          *)
(***************************************************************************)
Range(s) == {s[i] : i \in 1..Len(s)}

RECURSIVE SeqsUpTo(_, _)
SeqsUpTo(S, n) ==
    IF n = 0 THEN {<<>>}
    ELSE LET shorter == SeqsUpTo(S, n - 1)
         IN  shorter \cup {Append(s, x) : s \in {t \in shorter : Len(t) = n - 1}, x \in S}

\* The elements of a set of integers in ascending order (numpy's index arrays
\* taken through a boolean mask are ascending).
RECURSIVE SortedSeq(_)
SortedSeq(S) ==
    IF S = {} THEN <<>>
    ELSE LET m == CHOOSE x \in S : \A z \in S : x <= z
         IN  <<m>> \o SortedSeq(S \ {m})

NoModel == [model_name |-> "none", mean_score |-> 0 - 1, fold_results |-> <<>>]

(***************************************************************************)
(* ModelTrainer                                                            *)
(***************************************************************************)
ModelNames == {"rf", "lgbm", "xgb", "svm"}
TaskTypes == {"classification", "regression"}

\* _get_model_class: the estimator class of a family, or ValueError.
get_model_class(model_name, task_type) ==
    IF model_name = "rf"
    THEN (IF task_type = "classification" THEN "RandomForestClassifier" ELSE "RandomForestRegressor")
    ELSE IF model_name = "lgbm"
    THEN (IF task_type = "classification" THEN "LGBMClassifier" ELSE "LGBMRegressor")
    ELSE IF model_name = "xgb"
    THEN (IF task_type = "classification" THEN "XGBClassifier" ELSE "XGBRegressor")
    ELSE "ValueError"

\* _setup_cross_validation: the splitter chosen for the task type.
setup_cross_validation(config) ==
    IF config.task_type = "classification"
    THEN [kind |-> "StratifiedKFold", n_splits |-> config.cv_folds]
    ELSE [kind |-> "KFold", n_splits |-> config.cv_folds]

\* Number of rows of class c among the positions i, i+k, i+2k, ... of the
\* sorted target (StratifiedKFold's allocation of class members to fold i).
ClassCount(y, n, c) == Cardinality({r \in 0..(n - 1) : y[r] = c})
Allocation(y, n, k, i, c) ==
    LET n0 == ClassCount(y, n, 0)      \* the sorted target is n0 zeros, then ones
        pos == {p \in 0..(n - 1) : p % k = i}
    IN  IF c = 0 THEN Cardinality({p \in pos : p < n0})
                 ELSE Cardinality({p \in pos : p >= n0})

\* cv.split(X, y): the assignments row -> held-out fold the splitter can
\* produce for some seed; the empty set when split raises.
\*   KFold: the first n % k folds hold n \div k + 1 rows, the others n \div k;
\*          raises when k > n.
\*   StratifiedKFold: each class is dealt to the folds by Allocation, shuffled
\*          within the class; raises when k exceeds every class's size.
CvSplits(cv, n, y) ==
    LET k == cv.n_splits
        all == [0..(n - 1) -> 0..(k - 1)]
    IN  IF cv.kind = "KFold"
        THEN IF k > n THEN {}
             ELSE {f \in all : \A i \in 0..(k - 1) :
                     Cardinality({r \in 0..(n - 1) : f[r] = i})
                        = (n \div k) + (IF i < n % k THEN 1 ELSE 0)}
        ELSE IF \A c \in 0..1 : k > ClassCount(y, n, c) THEN {}
             ELSE {f \in all : \A i \in 0..(k - 1) : \A c \in 0..1 :
                     Cardinality({r \in 0..(n - 1) : y[r] = c /\ f[r] = i})
                        = Allocation(y, n, k, i, c)}

\* fold_model.fit(X[train_idx], y[train_idx]): the fold's model, known by the
\* fold and the rows it was fitted on.
FoldModelFit(i, train_idx) == [fold_idx |-> i, fitted_on |-> train_idx]

\* fold_model.predict(X[idx]): one prediction per row of idx, in idx's order;
\* each prediction carries the row it is for and the model that made it.
Predict(fold_model, idx) ==
    [j \in 1..Len(idx) |-> [row |-> idx[j], fold_model |-> fold_model]]

\* y[idx]: the actual values of the rows of idx, in idx's order, each carrying
\* its row.
Actuals(idx) == [j \in 1..Len(idx) |-> [row |-> idx[j]]]

\* A fold result that lists every row as a training row.
FoldResultOfAllRows(f, n, i) ==
    LET train_idx == SortedSeq(0..(n - 1))
        val_idx == SortedSeq({r \in 0..(n - 1) : f[r] = i})
    IN  [fold_idx |-> i,
         train_indices |-> train_idx,
         val_indices |-> val_idx,
         val_predictions |-> Predict(FoldModelFit(i, train_idx), val_idx),
         val_actual |-> Actuals(val_idx)]

\* The FoldResult stored for fold i: train_idx.tolist() and val_idx.tolist(),
\* the predictions of the fold's model for the held-out rows and their actual
\* values.
FoldResultOf(f, n, i) ==
    LET train_idx == SortedSeq({r \in 0..(n - 1) : f[r] # i})
        val_idx == SortedSeq({r \in 0..(n - 1) : f[r] = i})
    IN  [fold_idx |-> i,
         train_indices |-> train_idx,
         val_indices |-> val_idx,
         val_predictions |-> Predict(FoldModelFit(i, train_idx), val_idx),
         val_actual |-> Actuals(val_idx)]

\* The loop over enumerate(cv.split(X, y)) of _train_single_model.
FoldResults(f, n, k) == [j \in 1..k |-> FoldResultOf(f, n, j - 1)]

\* all_predictions = val_predictions in place of extend: only the last fold's
\* predictions are kept.
AllPredictionsOfLastFold(fold_results) ==
    IF fold_results = <<>> THEN <<>>
    ELSE fold_results[Len(fold_results)].val_predictions

\* list.extend applied to an empty list with each of the lists in turn.
RECURSIVE Extended(_)
Extended(lists) ==
    IF lists = <<>> THEN <<>>
    ELSE Extended(SubSeq(lists, 1, Len(lists) - 1)) \o lists[Len(lists)]

\* all_predictions.extend(val_predictions), fold after fold.
AllPredictions(fold_results) ==
    Extended([j \in 1..Len(fold_results) |-> fold_results[j].val_predictions])

\* all_actuals.extend(y_val), fold after fold.
AllActuals(fold_results) ==
    Extended([j \in 1..Len(fold_results) |-> fold_results[j].val_actual])

\* A variant that runs permutation importance whether or not the model has a
\* native importance.
calculate_feature_importance_permuting(model, permutation_raises) ==
    [value |-> IF model.has_feature_importances THEN "native"
               ELSE IF permutation_raises THEN "None" ELSE "permutation",
     calls |-> <<"permutation_importance">>,
     warnings |-> IF permutation_raises THEN 1 ELSE 0]

\* _calculate_feature_importance: the native importances when the model has
\* the attribute feature_importances_; otherwise permutation_importance is
\* called, and when it raises the exception is caught, a warning logged and
\* None returned. calls lists the library calls made.
calculate_feature_importance(model, permutation_raises) ==
    IF model.has_feature_importances
    THEN [value |-> "native", calls |-> <<>>, warnings |-> 0]
    ELSE IF permutation_raises
    THEN [value |-> "None", calls |-> <<"permutation_importance">>, warnings |-> 1]
    ELSE [value |-> "permutation", calls |-> <<"permutation_importance">>, warnings |-> 0]

\* _train_single_model's return value: the search's mean score (an input of
\* the model), the fold results and the aggregated out-of-fold predictions
\* and actual values.
ModelTrainingResult(model_name, score, f, n, k) ==
    [model_name |-> model_name, mean_score |-> score,
     fold_results |-> FoldResults(f, n, k),
     all_predictions |-> AllPredictions(FoldResults(f, n, k)),
     all_actuals |-> AllActuals(FoldResults(f, n, k))]

\* Python's max(results, key=...): the first element whose key no later
\* element exceeds.
RECURSIVE PyMaxFrom(_, _, _)
PyMaxFrom(results, i, cur) ==
    IF i > Len(results) THEN cur
    ELSE PyMaxFrom(results, i + 1,
                   IF results[i].mean_score > cur.mean_score THEN results[i] ELSE cur)

select_best_model_last(results) == results[Len(results)]

\* _select_best_model
select_best_model(results) == PyMaxFrom(results, 2, results[1])

\* The trainer between calls.
TrainIdle ==
    /\ tpc = "idle"
    /\ tcfg = [task_type |-> "classification", cv_folds |-> 2, models_to_try |-> <<>>]
    /\ tn = 0
    /\ tcv = <<>>
    /\ all_results = <<>>
    /\ best_model = NoModel

\* train is entered: the arguments are bound and the cross-validation splitter
\* is set up; its seeded shuffle of the rows of (X, y) is fixed from here on
\* (random_state is an int). y holds the class labels the stratified splitter
\* reads.
TrainCall ==
    /\ tpc = "idle"
    /\ \E n \in 1..MaxTrainRows, task \in TaskTypes, k \in 2..MaxFolds :
         \E y \in [0..(n - 1) -> 0..1] :
            LET cv == setup_cross_validation([task_type |-> task, cv_folds |-> k])
                splits == CvSplits(cv, n, y)
            IN  \E f \in (IF splits = {} THEN {<<>>} ELSE splits) :
                  \E models \in SeqsUpTo(ModelNames, MaxModels) :
                    /\ tcfg' = [task_type |-> task, cv_folds |-> k, models_to_try |-> models]
                    /\ tn' = n
                    /\ tcv' = f
    /\ tpc' = "training"
    /\ all_results' = <<>>
    /\ best_model' = NoModel
    /\ UNCHANGED notTrainer

\* One iteration of the loop over config.models_to_try: _train_single_model
\* raises for an unknown family or when the split raises, and otherwise its
\* result is appended.
TrainSingleModel ==
    /\ tpc = "training"
    /\ Len(all_results) < Len(tcfg.models_to_try)
    /\ LET model_name == tcfg.models_to_try[Len(all_results) + 1]
       IN  IF get_model_class(model_name, tcfg.task_type) = "ValueError" \/ tcv = <<>>
           THEN /\ tpc' = "raised"
                /\ all_results' = <<>>
           ELSE /\ \E score \in 0..MaxScore :
                     all_results' = Append(all_results,
                         ModelTrainingResult(model_name, score, tcv, tn, tcfg.cv_folds))
                /\ tpc' = "training"
    /\ UNCHANGED <<tcfg, tn, tcv, best_model>>
    /\ UNCHANGED notTrainer

\* After the loop: the best model is selected and TrainingResults returned;
\* max() of an empty list raises.
TrainSelectBest ==
    /\ tpc = "training"
    /\ Len(all_results) = Len(tcfg.models_to_try)
    /\ IF all_results = <<>>
       THEN tpc' = "raised" /\ best_model' = NoModel
       ELSE tpc' = "done" /\ best_model' = select_best_model(all_results)
    /\ UNCHANGED <<tcfg, tn, tcv, all_results>>
    /\ UNCHANGED notTrainer

\* The caller has the result (or the exception); the trainer keeps no state
\* between calls.
TrainReturn ==
    /\ tpc \in {"done", "raised"}
    /\ tpc' = "idle"
    /\ tcfg' = [task_type |-> "classification", cv_folds |-> 2, models_to_try |-> <<>>]
    /\ tn' = 0
    /\ tcv' = <<>>
    /\ all_results' = <<>>
    /\ best_model' = NoModel
    /\ UNCHANGED notTrainer

TrainNext == TrainCall \/ TrainSingleModel \/ TrainSelectBest \/ TrainReturn



(***************************************************************************)
(* Tables.  A cell is missing (NaN/None), a number, or text.  Numbers are  *)
(* fixed-point: Num(v) stands for v / Unit, so that the quartiles of whole *)
(* numbers and 1.5 times their difference are exact.  A column has a name, *)
(* a storage type ("number" or "object") and its cells; in an "object"     *)
(* column a Num cell is a string that reads as that number ("1").          *)
(***************************************************************************)
Unit == 8
NA == [k |-> "na", v |-> 0]
Num(x) == [k |-> "num", v |-> x]
Txt(i) == [k |-> "txt", v |-> i]
\* Texts pd.to_datetime parses: Date(i) reads as a date only ("2021-03-04"),
\* NumDate(x) as a date and as the number x ("2020").
Date(i) == [k |-> "date", v |-> i]
NumDate(x) == [k |-> "numdate", v |-> x]
IsNA(c) == c.k = "na"

Column(name, dtype, vals) == [name |-> name, dtype |-> dtype, vals |-> vals]

\* Sequences of 1..n cells drawn from S.
CellSeqs(S, n) == UNION {[1..m -> S] : m \in 1..n}

\* pandas is_numeric_dtype: float storage ("number") or integer storage.
is_numeric_dtype(col) == col.dtype \in {"number", "integer"}
\* pandas is_integer_dtype
is_integer_dtype(col) == col.dtype = "integer"

\* The non-missing cells of a column, in row order (Series.dropna()).
RECURSIVE DropNA(_)
DropNA(vals) ==
    IF vals = <<>> THEN <<>>
    ELSE (IF IsNA(Head(vals)) THEN <<>> ELSE <<Head(vals)>>) \o DropNA(Tail(vals))

\* The numbers of a sequence of Num cells in ascending order, with repeats.
RECURSIVE SortNums(_)
SortNums(vals) ==
    IF vals = <<>> THEN <<>>
    ELSE LET i == CHOOSE j \in 1..Len(vals) : \A z \in 1..Len(vals) : vals[j].v <= vals[z].v
         IN  <<vals[i].v>> \o SortNums([j \in 1..(Len(vals) - 1) |->
                                          IF j < i THEN vals[j] ELSE vals[j + 1]])

(***************************************************************************)
(* OutlierHandler                                                          *)
(***************************************************************************)
\* Bounds as stored in outlier_bounds_: a pair of numbers (in 1/Unit), the
\* pair (mean - t*std, mean + t*std) kept by its sufficient statistics, or a
\* pair of NaN when the fit data gives no number.
NaNBounds == [kind |-> "nan", lo |-> 0, hi |-> 0, n |-> 0, s |-> 0, ss |-> 0, t2 |-> 0]
IqrBounds(lo, hi) == [kind |-> "iqr", lo |-> lo, hi |-> hi, n |-> 0, s |-> 0, ss |-> 0, t2 |-> 0]
ZBounds(n, s, ss, t2) == [kind |-> "zscore", lo |-> 0, hi |-> 0, n |-> n, s |-> s, ss |-> ss, t2 |-> t2]

\* Series.quantile(q4 / 4) of the sorted non-missing numbers xs (linear
\* interpolation between the two nearest ranks).
Quantile4(xs, q4) ==
    LET h4 == (Len(xs) - 1) * q4
        lo == h4 \div 4
        fr == h4 % 4
    IN  IF fr = 0 THEN xs[lo + 1]
        ELSE xs[lo + 1] + (fr * (xs[lo + 2] - xs[lo + 1])) \div 4

RECURSIVE SumSeq(_)
SumSeq(xs) == IF xs = <<>> THEN 0 ELSE Head(xs) + SumSeq(Tail(xs))

\* The bounds OutlierHandler.fit stores for one numeric column; threshold2 is
\* twice the threshold (1.5 -> 3, 3.0 -> 6).  An unknown method stores none.
iqr_bounds(vals, threshold2) ==
    LET xs == SortNums(DropNA(vals))
    IN  IF xs = <<>> THEN NaNBounds
        ELSE LET Q1 == Quantile4(xs, 1)
                 Q3 == Quantile4(xs, 3)
                 IQR == Q3 - Q1
             IN  IqrBounds(Q1 - (threshold2 * IQR) \div 2, Q3 + (threshold2 * IQR) \div 2)

\* mean and std (ddof = 1) are NaN for no data, std also for a single value.
zscore_bounds(vals, threshold2) ==
    LET xs == SortNums(DropNA(vals))
    IN  IF Len(xs) < 2 THEN NaNBounds
        ELSE ZBounds(Len(xs), SumSeq(xs), SumSeq([i \in 1..Len(xs) |-> xs[i] * xs[i]]), threshold2)

\* x < lower_bound and x > upper_bound, for a number x (in 1/Unit).  For the
\* z-score pair: |mean - x| > t*std  <=>  4 (n-1) (s - n x)^2 > t2^2 n (n ss - s^2).
BelowLower(x, b) ==
    IF b.kind = "iqr" THEN x < b.lo
    ELSE IF b.kind = "zscore"
    THEN b.s - b.n * x > 0
         /\ 4 * (b.n - 1) * (b.s - b.n * x) * (b.s - b.n * x)
              > b.t2 * b.t2 * b.n * (b.n * b.ss - b.s * b.s)
    ELSE FALSE
AboveUpper(x, b) ==
    IF b.kind = "iqr" THEN x > b.hi
    ELSE IF b.kind = "zscore"
    THEN b.n * x - b.s > 0
         /\ 4 * (b.n - 1) * (b.n * x - b.s) * (b.n * x - b.s)
              > b.t2 * b.t2 * b.n * (b.n * b.ss - b.s * b.s)
    ELSE FALSE

\* _detect_outliers_for_column: how many cells lie outside the stored bounds.
detect_outliers_count(vals, bounds, name) ==
    IF name \notin DOMAIN bounds THEN 0
    ELSE Cardinality({i \in 1..Len(vals) :
            ~IsNA(vals[i]) /\ (BelowLower(vals[i].v, bounds[name]) \/ AboveUpper(vals[i].v, bounds[name]))})

\* f with f[name] set to val (a dict assignment).
DictPut(f, name, val) == [x \in DOMAIN f \cup {name} |-> IF x = name THEN val ELSE f[x]]

\* OutlierHandler.fit over the columns of X: bounds and outlier statistics of
\* every numeric column are added to the dicts the handler already holds.
RECURSIVE OutlierFit(_, _, _)
OutlierFit(h, cols, i) ==
    IF i > Len(cols) THEN h
    ELSE LET col == cols[i]
             b == IF h.method = "iqr" THEN DictPut(h.outlier_bounds_, col.name, iqr_bounds(col.vals, h.threshold2))
                  ELSE IF h.method = "zscore" THEN DictPut(h.outlier_bounds_, col.name, zscore_bounds(col.vals, h.threshold2))
                  ELSE h.outlier_bounds_
             st == DictPut(h.outlier_stats_, col.name, detect_outliers_count(col.vals, b, col.name))
         IN  IF is_numeric_dtype(col)
             THEN OutlierFit([h EXCEPT !.outlier_bounds_ = b, !.outlier_stats_ = st], cols, i + 1)
             ELSE OutlierFit(h, cols, i + 1)

\* Series.clip(lower, upper) on one cell: a NaN bound is no bound; a value
\* clipped to a z-score bound is kept as that bound (its value is irrational).
ClipCell(c, b) ==
    IF IsNA(c) \/ b.kind = "nan" THEN c
    ELSE IF BelowLower(c.v, b) THEN (IF b.kind = "iqr" THEN Num(b.lo) ELSE [k |-> "lower_bound", v |-> 0])
    ELSE IF AboveUpper(c.v, b) THEN (IF b.kind = "iqr" THEN Num(b.hi) ELSE [k |-> "upper_bound", v |-> 0])
    ELSE c

\* strategy 'remove': cells outside the bounds become missing.
RemoveCell(c, b) ==
    IF IsNA(c) THEN c
    ELSE IF BelowLower(c.v, b) \/ AboveUpper(c.v, b) THEN NA
    ELSE c

\* strategy 'transform': log1p of the column when every cell is a positive
\* number (a comparison with NaN is false).
Log1pCol(vals) ==
    IF \A i \in 1..Len(vals) : ~IsNA(vals[i]) /\ vals[i].v > 0
    THEN [i \in 1..Len(vals) |-> [k |-> "log1p", v |-> vals[i].v]]
    ELSE vals

\* A transform that takes its bounds from the table it is given.
OutlierTransformColRefit(h, col) ==
    IF is_numeric_dtype(col) /\ col.name \in DOMAIN h.outlier_bounds_
    THEN [col EXCEPT !.vals = [i \in 1..Len(col.vals) |->
                                 ClipCell(col.vals[i], iqr_bounds(col.vals, h.threshold2))]]
    ELSE col

\* OutlierHandler.transform on one column of the copy.
OutlierTransformCol(h, col) ==
    IF is_numeric_dtype(col) /\ col.name \in DOMAIN h.outlier_bounds_
    THEN LET b == h.outlier_bounds_[col.name]
         IN  IF h.strategy = "clip"
             THEN [col EXCEPT !.vals = [i \in 1..Len(col.vals) |-> ClipCell(col.vals[i], b)]]
             ELSE IF h.strategy = "remove"
             THEN [col EXCEPT !.vals = [i \in 1..Len(col.vals) |-> RemoveCell(col.vals[i], b)]]
             ELSE IF h.strategy = "transform"
             THEN [col EXCEPT !.vals = Log1pCol(col.vals)]
             ELSE col
    ELSE col

\* OutlierHandler.transform: the transformed copy of X.
OutlierTransform(h, cols) == [i \in 1..Len(cols) |-> OutlierTransformCol(h, cols[i])]

\* OutlierHandler.__init__
OutlierHandlerNew(method, threshold2, strategy) ==
    [method |-> method, threshold2 |-> threshold2, strategy |-> strategy,
     outlier_bounds_ |-> <<>>, outlier_stats_ |-> <<>>]

\* The handlers and tables of the OutlierHandler specification: the three
\* ways AutoPreprocessor builds one, with each strategy; one table column "c"
\* of numbers 0, 1, 2 (or missing), or of text.
OHMethods == {<<"iqr", 3>>, <<"zscore", 6>>, <<"isolation", 3>>}
OHStrategies == {"clip", "remove", "transform"}
OHCells == {NA, Num(0), Num(Unit), Num(2 * Unit)}
OHTables ==
    {<<Column("c", "number", vals)>> : vals \in CellSeqs(OHCells, MaxRows)}
      \cup {<<Column("c", "object", <<Txt(1)>>)>>}

\* A handler as constructed.
OHNew ==
    /\ \E m \in OHMethods, st \in OHStrategies : oh = OutlierHandlerNew(m[1], m[2], st)
    /\ ohLast = [op |-> "init", out |-> <<>>]

OHFit ==
    \E X \in OHTables :
        /\ oh' = OutlierFit(oh, X, 1)
        /\ ohLast' = [op |-> "fit", out |-> <<>>]
        /\ UNCHANGED notOutlier

OHTransform ==
    \E X \in OHTables :
        /\ ohLast' = [op |-> "transform", out |-> OutlierTransform(oh, X)]
        /\ UNCHANGED oh
        /\ UNCHANGED notOutlier

OHNext == OHFit \/ OHTransform

\* The handler while another subsystem is being checked.
OHRest ==
    /\ oh = OutlierHandlerNew("iqr", 3, "clip")
    /\ ohLast = [op |-> "init", out |-> <<>>]


(***************************************************************************)
(* DataFrames.  A table has a row count and a sequence of columns (a table *)
(* keeps its rows when every column is dropped).                           *)
(***************************************************************************)
Table(n, cols) == [n |-> n, cols |-> cols]
ColNames(t) == {t.cols[i].name : i \in 1..Len(t.cols)}
ColumnOf(t, name) == t.cols[CHOOSE i \in 1..Len(t.cols) : t.cols[i].name = name]

\* X.drop(columns=names, errors='ignore')
DropColumns(t, names) ==
    [t EXCEPT !.cols = SelectSeq(t.cols, LAMBDA c : c.name \notin names)]

\* The names of a selection of columns, in table order.
NamesOf(cols) == [i \in 1..Len(cols) |-> cols[i].name]

\* Series.nunique(): distinct non-missing values.
nunique(vals) == Cardinality({vals[i] : i \in {j \in 1..Len(vals) : ~IsNA(vals[j])}})
\* Series.notna().sum()
notna_count(vals) == Cardinality({i \in 1..Len(vals) : ~IsNA(vals[i])})

\* X.duplicated(): row r repeats an earlier row (missing equals missing).
duplicated(t, r) ==
    \E q \in 1..(r - 1) : \A i \in 1..Len(t.cols) : t.cols[i].vals[q] = t.cols[i].vals[r]

\* X.drop_duplicates(): the first occurrence of every row, in order.
RECURSIVE KeptRows(_, _)
KeptRows(t, r) ==
    IF r > t.n THEN <<>>
    ELSE (IF duplicated(t, r) THEN <<>> ELSE <<r>>) \o KeptRows(t, r + 1)
drop_duplicates(t) ==
    LET rows == KeptRows(t, 1)
    IN  Table(Len(rows),
              [i \in 1..Len(t.cols) |->
                  [t.cols[i] EXCEPT !.vals = [j \in 1..Len(rows) |-> t.cols[i].vals[rows[j]]]]])

\* pd.to_numeric(series, errors='coerce'): text that reads as a number
\* becomes that number, other text becomes missing.
to_numeric(col) ==
    [col EXCEPT !.dtype = "number",
                !.vals = [i \in 1..Len(col.vals) |->
                            IF col.vals[i].k = "num" THEN col.vals[i]
                            ELSE IF col.vals[i].k = "numdate" THEN Num(col.vals[i].v)
                            ELSE NA]]

\* pd.to_datetime(series, errors='coerce'): text that parses as a date stays,
\* other text becomes missing (NaT).
to_datetime(col) ==
    [col EXCEPT !.dtype = "datetime",
                !.vals = [i \in 1..Len(col.vals) |->
                            IF col.vals[i].k \in {"date", "numdate"} THEN col.vals[i] ELSE NA]]

\* conversion_rate > 0.8, the rate being 0 when nothing is non-missing.
conversion_pct == 80
mostly_numeric(col) ==
    LET original == notna_count(col.vals)
        converted == notna_count(to_numeric(col).vals)
    IN  original > 0 /\ converted * 100 > conversion_pct * original

(***************************************************************************)
(* DataValidator                                                           *)
(***************************************************************************)
constant_threshold_pct == 95
missing_threshold_pct == 80

DataValidatorNew(cfg) ==
    [remove_duplicates |-> cfg.remove_duplicates,
     remove_constant_features |-> cfg.remove_constant_features,
     remove_high_missing |-> cfg.remove_high_missing,
     columns_to_drop_ |-> <<>>, dtype_fixes_ |-> <<>>, duplicate_count_ |-> 0]

\* _is_datetime_column: more than half of the first min(100, len(series))
\* non-missing values parse as a date.
date_sample_size == 100
date_ratio_pct == 50
DateSample(col) ==
    LET present == DropNA(col.vals)
        sample_size == IF Len(col.vals) < date_sample_size THEN Len(col.vals) ELSE date_sample_size
    IN  SubSeq(present, 1, IF Len(present) < sample_size THEN Len(present) ELSE sample_size)
DatetimeCount(sample) ==
    Cardinality({i \in 1..Len(sample) : sample[i].k \in {"date", "numdate"}})
is_datetime_column_sample(sample) ==
    Len(sample) > 0 /\ DatetimeCount(sample) * 100 > date_ratio_pct * Len(sample)
is_datetime_column(col) == is_datetime_column_sample(DateSample(col))

\* _analyze_data_types: the fix recorded for every object column that mostly
\* reads as numbers, and otherwise for every object column that mostly
\* reads as dates.
analyze_data_types(t) ==
    LET fix == {t.cols[i].name : i \in {j \in 1..Len(t.cols) :
                    /\ ~is_numeric_dtype(t.cols[j])
                    /\ t.cols[j].dtype = "object"
                    /\ (mostly_numeric(t.cols[j]) \/ is_datetime_column(t.cols[j]))}}
    IN  [c \in fix |-> IF mostly_numeric(ColumnOf(t, c)) THEN "to_numeric" ELSE "to_datetime"]

\* _apply_dtype_fix
apply_dtype_fix(col, fix_method) ==
    IF fix_method = "to_numeric" THEN to_numeric(col)
    ELSE IF fix_method = "to_datetime" THEN to_datetime(col)
    ELSE col

\* _identify_constant_features.  unique_ratio < 1 - 0.95 holds up to and
\* including a ratio of 0.05, since 1 - 0.95 is 0.05000000000000004 in floats.
is_constant_feature(col) ==
    IF is_numeric_dtype(col)
    THEN nunique(col.vals) * 100 <= (100 - constant_threshold_pct) * Len(col.vals)
    ELSE \E i \in 1..Len(col.vals) :
            /\ ~IsNA(col.vals[i])
            /\ Cardinality({j \in 1..Len(col.vals) : col.vals[j] = col.vals[i]}) * 100
                  >= constant_threshold_pct * Len(col.vals)

\* _identify_high_missing_columns
is_high_missing(col) ==
    (Len(col.vals) - notna_count(col.vals)) * 100 >= missing_threshold_pct * Len(col.vals)

\* DataValidator.fit
ValidatorFit(v, t) ==
    LET dup == IF v.remove_duplicates
               THEN Cardinality({r \in 1..t.n : duplicated(t, r)})
               ELSE v.duplicate_count_
        const == IF v.remove_constant_features
                 THEN NamesOf(SelectSeq(t.cols, is_constant_feature)) ELSE <<>>
        high == IF v.remove_high_missing
                THEN NamesOf(SelectSeq(t.cols, is_high_missing)) ELSE <<>>
    IN  [v EXCEPT !.duplicate_count_ = dup,
                  !.dtype_fixes_ = analyze_data_types(t),
                  !.columns_to_drop_ = v.columns_to_drop_ \o const \o high]

\* Objects.  A heap is the sequence of the tables allocated so far; a
\* reference is [heap, id], the heap and the place in it of the table
\* referred to.  An operation that returns a new table appends it; an
\* assignment into a table changes it in place.
NewObject(heap, t) == [heap |-> Append(heap, t), id |-> Len(heap) + 1]

\* X_cleaned = X, the same object under another name.
SameObject(heap, x) == [heap |-> heap, id |-> x]

\* X.copy(): a new table with the same contents.
Copy(heap, x) == NewObject(heap, heap[x])

\* transform removes duplicate rows whenever removal is switched on.
ShouldRemoveDuplicatesAlways(v) == v.remove_duplicates

\* transform removes duplicate rows only if fit counted some.
ShouldRemoveDuplicates(v) == v.remove_duplicates /\ v.duplicate_count_ > 0

\* X_cleaned[col] = self._apply_dtype_fix(X_cleaned[col], dtype_info), for
\* every fix whose column the table has.
FixDtypes(v, t) ==
    [t EXCEPT !.cols = [i \in 1..Len(t.cols) |->
        IF t.cols[i].name \in DOMAIN v.dtype_fixes_
        THEN apply_dtype_fix(t.cols[i], v.dtype_fixes_[t.cols[i].name])
        ELSE t.cols[i]]]

\* DataValidator.transform from its last step back to its first; each
\* operator receives the reference X_cleaned as the steps before left it.
TransformDropColumns(v, c) ==
    IF v.columns_to_drop_ # <<>>
    THEN NewObject(c.heap, DropColumns(c.heap[c.id], Range(v.columns_to_drop_)))
    ELSE c
TransformFixDtypes(v, c) ==
    TransformDropColumns(v, [heap |-> [c.heap EXCEPT ![c.id] = FixDtypes(v, c.heap[c.id])],
                             id |-> c.id])
TransformRemoveDuplicates(v, c) ==
    TransformFixDtypes(v, IF ShouldRemoveDuplicates(v)
                          THEN NewObject(c.heap, drop_duplicates(c.heap[c.id]))
                          ELSE c)

\* DataValidator.transform(X) for the table X at place x of the heap: the
\* heap afterwards and the place of the table returned.
ValidatorTransformObject(v, heap, x) == TransformRemoveDuplicates(v, Copy(heap, x))

\* DataValidator.transform: the table returned for t.
ValidatorTransformResult(r) == r.heap[r.id]
ValidatorTransform(v, t) == ValidatorTransformResult(ValidatorTransformObject(v, <<t>>, 1))

(***************************************************************************)
(* AutoPreprocessor: column selection and the transformers it builds       *)
(***************************************************************************)
max_cardinality == 50
id_min_rows == 20

\* The column name contains one of the identifier keywords.
name_suggests_id(name) == name \in {"id", "key", "uuid", "guid", "index", "_id", "pk"}

\* Text cells spelled out: Str(chars) is the string of the characters chars.
Str(chars) == [k |-> "str", v |-> chars]
Letters == <<"a", "b", "c", "d", "e">>
Digits == <<"0", "1", "2", "3", "4">>
isalpha(char) == char \in Range(Letters)
isdigit(char) == char \in Range(Digits)

\* str(val): a spelled-out text is itself; the numbers of the model print in
\* digits and a point and in at most 8 characters (1.0, 0.125), the other
\* texts are short words.
str(val) ==
    IF val.k = "str" THEN val.v
    ELSE IF val.k = "num" THEN <<"1", ".", "0">>
    ELSE <<"a">>

id_sample_size == 5
id_long_chars == 8

\* X[col].dropna().astype(str).head(5).tolist()
sample_values(col) ==
    LET present == DropNA(col.vals)
    IN  [i \in 1..(IF Len(present) < id_sample_size THEN Len(present) ELSE id_sample_size) |->
            str(present[i])]

\* One of the sampled values is longer than 8 characters or has a character
\* that is a letter and a digit at once.
values_look_like_ids(col) ==
    \E i \in 1..Len(sample_values(col)) :
        \/ Len(sample_values(col)[i]) > id_long_chars
        \/ \E j \in 1..Len(sample_values(col)[i]) :
              isalpha(sample_values(col)[i][j]) /\ isdigit(sample_values(col)[i][j])

\* _identify_columns_to_drop
identify_columns_to_drop(cfg, t) ==
    IF cfg.drop_id_columns
    THEN NamesOf(SelectSeq(t.cols, LAMBDA col :
            LET is_all_unique == nunique(col.vals) = t.n /\ notna_count(col.vals) = t.n
                is_large_dataset == t.n > id_min_rows
                looks == is_all_unique /\ t.n > 0 /\ values_look_like_ids(col)
            IN  is_all_unique /\ ((is_large_dataset /\ (name_suggests_id(col.name) \/ looks))
                                    \/ (name_suggests_id(col.name) /\ looks))))
    ELSE <<>>

\* _separate_column_types followed by the two re-checks of fit: a column of
\* numeric storage stays numeric; an object column that mostly reads as
\* numbers is converted and appended to the numeric columns.
Reclassify(t) ==
    LET numeric == NamesOf(SelectSeq(t.cols, is_numeric_dtype))
        object == SelectSeq(t.cols, LAMBDA c : ~is_numeric_dtype(c))
        conv == SelectSeq(object, mostly_numeric)
        cat == SelectSeq(object, LAMBDA c : ~mostly_numeric(c))
    IN  [X_clean |-> [t EXCEPT !.cols = [i \in 1..Len(t.cols) |->
                          IF ~is_numeric_dtype(t.cols[i]) /\ mostly_numeric(t.cols[i])
                          THEN to_numeric(t.cols[i]) ELSE t.cols[i]]],
         numeric_columns |-> numeric \o [i \in 1..Len(conv) |-> conv[i].name],
         categorical_columns |-> [i \in 1..Len(cat) |-> cat[i].name]]

\* _filter_by_cardinality
low_cardinality(cfg, t, categorical_columns) ==
    SelectSeq(categorical_columns, LAMBDA c : nunique(ColumnOf(t, c).vals) <= cfg.max_cardinality)
high_cardinality(cfg, t, categorical_columns) ==
    SelectSeq(categorical_columns, LAMBDA c : nunique(ColumnOf(t, c).vals) > cfg.max_cardinality)

Step(name, est, param) == [name |-> name, est |-> est, param |-> param]

\* The numeric steps with the imputer placed before the outlier handler.
numeric_steps_imputer_first(cfg) ==
    (IF cfg.handle_missing THEN <<Step("imputer", "SimpleImputer", "median")>> ELSE <<>>)
      \o (IF cfg.handle_outliers
          THEN <<Step("outlier_handler", "OutlierHandler", cfg.outlier_method)>> ELSE <<>>)
      \o (IF cfg.scaling_strategy = "standard"
          THEN <<Step("scaler", "StandardScaler", "")>> ELSE <<>>)

\* _create_transformers, numeric part: the steps in the order appended.
numeric_steps(cfg) ==
    (IF cfg.handle_outliers
     THEN <<Step("outlier_handler", "OutlierHandler", cfg.outlier_method)>>
     ELSE <<>>)
      \o (IF cfg.handle_missing
          THEN (IF cfg.missing_strategy = "median" THEN <<Step("imputer", "SimpleImputer", "median")>>
                ELSE IF cfg.missing_strategy = "mean" THEN <<Step("imputer", "SimpleImputer", "mean")>>
                ELSE IF cfg.missing_strategy = "mode" THEN <<Step("imputer", "SimpleImputer", "most_frequent")>>
                ELSE IF cfg.missing_strategy = "knn" THEN <<Step("imputer", "KNNImputer", "")>>
                ELSE IF cfg.missing_strategy = "iterative" THEN <<Step("imputer", "IterativeImputer", "")>>
                ELSE <<Step("imputer", "SimpleImputer", "median")>>)
          ELSE <<>>)
      \o (IF cfg.scaling_strategy = "standard" THEN <<Step("scaler", "StandardScaler", "")>>
          ELSE IF cfg.scaling_strategy = "minmax" THEN <<Step("scaler", "MinMaxScaler", "")>>
          ELSE IF cfg.scaling_strategy = "robust" THEN <<Step("scaler", "RobustScaler", "")>>
          ELSE <<>>)

\* _create_transformers, categorical part.
categorical_steps(cfg) ==
    (IF cfg.handle_missing THEN <<Step("imputer", "SimpleImputer", "constant")>> ELSE <<>>)
      \o (IF cfg.categorical_encoding = "onehot" THEN <<Step("onehot", "OneHotEncoder", "first")>>
          ELSE IF cfg.categorical_encoding = "target" THEN <<Step("target", "TargetEncoder", "")>>
          ELSE IF cfg.categorical_encoding = "ordinal" THEN <<Step("ordinal", "OrdinalEncoder", "")>>
          ELSE IF cfg.categorical_encoding = "frequency" THEN <<Step("frequency", "FrequencyEncoder", "")>>
          ELSE <<Step("onehot", "OneHotEncoder", "first")>>)

\* _create_transformers: (name, steps, columns) per non-empty column group;
\* no steps stands for 'passthrough'.
create_transformers(cfg, numeric_columns, categorical_columns) ==
    (IF numeric_columns # <<>>
     THEN <<[name |-> "num", steps |-> numeric_steps(cfg), columns |-> numeric_columns]>>
     ELSE <<>>)
      \o (IF categorical_columns # <<>>
          THEN <<[name |-> "cat", steps |-> categorical_steps(cfg), columns |-> categorical_columns]>>
          ELSE <<>>)

\* The class name of the step called name, or "" when there is none.
StepEst(steps, name) ==
    IF \E i \in 1..Len(steps) : steps[i].name = name
    THEN steps[CHOOSE i \in 1..Len(steps) : steps[i].name = name].est
    ELSE ""
HasStep(steps, name) == \E i \in 1..Len(steps) : steps[i].name = name

\* The transformer named name of a list, or one without columns.
TransformerOf(transformers, name) ==
    IF \E i \in 1..Len(transformers) : transformers[i].name = name
    THEN transformers[CHOOSE i \in 1..Len(transformers) : transformers[i].name = name]
    ELSE [name |-> name, steps |-> <<>>, columns |-> <<>>]

\* _get_feature_names_out: numeric names, then per categorical column its
\* own name, or for one-hot one name per sorted non-missing value but the
\* first.
Name(col, cat) == [col |-> col, cat |-> cat]
\* The place of a value's text in sorted(): digits sort before letters.
str_key(c) == IF c.k = "num" THEN c.v ELSE 1000 + c.v
RECURSIVE CategoricalNames(_, _, _)
CategoricalNames(cfg, t, cols) ==
    IF cols = <<>> THEN <<>>
    ELSE LET col == Head(cols)
             present == {x \in Range(ColumnOf(t, col).vals) : ~IsNA(x)}
             categories == SortedSeq({str_key(c) : c \in present})
         IN  (IF cfg.categorical_encoding \in {"target", "ordinal", "frequency"}
              THEN <<Name(col, "")>>
              ELSE [i \in 1..(IF categories = <<>> THEN 0 ELSE Len(categories) - 1) |->
                       Name(col, CHOOSE c \in present : str_key(c) = categories[i + 1])])
               \o CategoricalNames(cfg, t, Tail(cols))
get_feature_names_out(cfg, t, numeric_columns, categorical_columns) ==
    [i \in 1..Len(numeric_columns) |-> Name(numeric_columns[i], "")]
      \o CategoricalNames(cfg, t, categorical_columns)

(***************************************************************************)
(* The sklearn Pipeline AutoPreprocessor builds: an optional drop_cols     *)
(* step and a ColumnTransformer over the numeric and categorical groups.   *)
(* Of what fitting learns the model keeps the outlier bounds, the numeric  *)
(* columns the imputer found entirely missing (it drops them), and the     *)
(* categories each encoder saw.                                            *)
(***************************************************************************)
PipelineNone == [kind |-> "None"]
NoHandler == OutlierHandlerNew("", 0, "")
Missing == Txt(0)    \* the fill value '_missing_'

PipelineNew(dropped_columns, transformers) ==
    [kind |-> "Pipeline", drop_cols |-> dropped_columns, transformers |-> transformers,
     fitted |-> FALSE, outlier_handler |-> NoHandler, empty_features |-> {},
     categories |-> <<>>]

\* outlier_threshold of _create_transformers, doubled.
outlier_threshold2(method) ==
    IF method = "iqr" THEN 3 ELSE IF method = "zscore" THEN 6 ELSE 3

\* The categories an encoder learns for a column: the values present, and
\* for missing cells the fill value when an imputer precedes it, else NaN.
FittedCategories(steps, col) ==
    {x \in Range(col.vals) : ~IsNA(x)}
      \cup (IF \A i \in 1..Len(col.vals) : ~IsNA(col.vals[i]) THEN {}
            ELSE IF HasStep(steps, "imputer") THEN {Missing} ELSE {NA})

\* Columns the encoder of the categorical steps returns for one column:
\* OneHotEncoder(drop='first') one per category but the first, the others one.
EncodedWidth(steps, categories) ==
    IF HasStep(steps, "onehot")
    THEN (IF categories = {} THEN 0 ELSE Cardinality(categories) - 1)
    ELSE 1

\* pipeline.fit(X_clean), called without y.  The numeric steps end in a
\* scaler that rejects a table with no column left; TargetEncoder.fit
\* requires y.
PipelineFit(pl, t) ==
    LET t1 == DropColumns(t, Range(pl.drop_cols))
        num == TransformerOf(pl.transformers, "num")
        cat == TransformerOf(pl.transformers, "cat")
        numcols == [i \in 1..Len(num.columns) |-> ColumnOf(t1, num.columns[i])]
        method == num.steps[CHOOSE i \in 1..Len(num.steps) : num.steps[i].name = "outlier_handler"].param
        handler == IF HasStep(num.steps, "outlier_handler")
                   THEN OutlierFit(OutlierHandlerNew(method, outlier_threshold2(method), "clip"), numcols, 1)
                   ELSE NoHandler
        empty == IF HasStep(num.steps, "imputer")
                 THEN {numcols[i].name : i \in {j \in 1..Len(numcols) : notna_count(numcols[j].vals) = 0}}
                 ELSE {}
    IN  IF pl.transformers = <<>>
        THEN [status |-> "ok", err |-> "", pl |-> [pl EXCEPT !.fitted = TRUE]]
        ELSE IF num.columns # <<>> /\ empty = Range(num.columns) /\ HasStep(num.steps, "scaler")
        THEN [status |-> "raised", err |-> "ValueError", pl |-> pl]
        ELSE IF HasStep(cat.steps, "target")
        THEN [status |-> "raised", err |-> "TypeError", pl |-> pl]
        ELSE [status |-> "ok", err |-> "",
              pl |-> [pl EXCEPT !.fitted = TRUE,
                                !.outlier_handler = handler,
                                !.empty_features = empty,
                                !.categories = [c \in Range(cat.columns) |->
                                                  FittedCategories(cat.steps, ColumnOf(t1, c))]]]

Outcome(pl, status, err, ncols, nrows) ==
    [pl |-> pl, status |-> status, err |-> err, ncols |-> ncols, nrows |-> nrows]

RECURSIVE SumWidths(_, _, _)
SumWidths(steps, categories, cols) ==
    IF cols = <<>> THEN 0
    ELSE EncodedWidth(steps, categories[Head(cols)]) + SumWidths(steps, categories, Tail(cols))

\* A pipeline transform that fits the outlier bounds anew on what it is given.
PipelineTransformRefit(pl, t) ==
    LET num == TransformerOf(pl.transformers, "num")
        present == SelectSeq(t.cols, LAMBDA c : c.name \in Range(num.columns))
    IN  Outcome([pl EXCEPT !.outlier_handler = OutlierFit(pl.outlier_handler, present, 1)],
                "ok", "", Len(present), t.n)

\* pipeline.transform(X_copy).  The ColumnTransformer wants every column it
\* was fitted on.  What the steps do with a text column in the numeric group
\* or a numeric column in the categorical group is left open: the outcome
\* "storage_mismatch" stands for whatever the installed sklearn does then.
PipelineTransform(pl, t) ==
    LET t1 == DropColumns(t, Range(pl.drop_cols))
        num == TransformerOf(pl.transformers, "num")
        cat == TransformerOf(pl.transformers, "cat")
        numeric_out == Cardinality(Range(num.columns) \ pl.empty_features)
    IN  IF ~pl.fitted THEN Outcome(pl, "raised", "NotFittedError", 0, 0)
        ELSE IF pl.transformers = <<>> THEN Outcome(pl, "ok", "", Len(t1.cols), t1.n)
        ELSE IF ~(Range(num.columns) \cup Range(cat.columns) \subseteq ColNames(t1))
        THEN Outcome(pl, "raised", "ValueError", 0, 0)
        ELSE IF \/ \E c \in Range(num.columns) : ~is_numeric_dtype(ColumnOf(t1, c))
                \/ \E c \in Range(cat.columns) : is_numeric_dtype(ColumnOf(t1, c))
        THEN Outcome(pl, "storage_mismatch", "", 0, 0)
        ELSE Outcome(pl, "ok", "", numeric_out + SumWidths(cat.steps, pl.categories, cat.columns), t1.n)

(***************************************************************************)
(* AutoPreprocessor                                                        *)
(***************************************************************************)
None == [kind |-> "None"]
NoY == [given |-> FALSE, col |-> Column("", "number", <<>>)]
GivenY(col) == [given |-> TRUE, col |-> col]
class_max_unique == 20

\* AutoPreprocessor.__init__: the arguments in cfg, nothing fitted.
AutoPreprocessorNew(cfg) ==
    [cfg |-> cfg, task_type |-> cfg.task_type,
     pipeline |-> PipelineNone, feature_names_out |-> <<>>, dropped_columns |-> <<>>,
     label_encoder |-> None, feature_engineer |-> None, data_validator |-> None,
     preprocessing_report |-> None, is_fitted |-> FALSE]

\* detect_task_type.  For a target of integer storage with more than 20
\* distinct values the lambda calls is_integer() on Python ints, which only
\* interpreters from 3.12 on provide: the result "int.is_integer()" stands
\* for that call, which the interpreter at hand decides (ResolveIsInteger).
detect_task_type(y) ==
    IF is_numeric_dtype(y)
    THEN IF is_integer_dtype(y) /\ nunique(y.vals) <= class_max_unique
         THEN "classification"
         ELSE IF is_integer_dtype(y) /\ DropNA(y.vals) # <<>>
         THEN "int.is_integer()"
         ELSE IF (\A i \in 1..Len(y.vals) : IsNA(y.vals[i]) \/ y.vals[i].v % Unit = 0)
                 /\ nunique(y.vals) <= class_max_unique
         THEN "classification" ELSE "regression"
    ELSE "classification"

\* What calling is_integer() on ints leads to: every int is integral, so the
\* target with more than 20 distinct values is a regression target, or the
\* attribute is missing.
ResolveIsInteger(result, int_has_is_integer) ==
    IF result = "int.is_integer()"
    THEN (IF int_has_is_integer THEN "regression" ELSE "AttributeError")
    ELSE result

\* An entry of fit that takes a stand-in target when none can be found.
ExtractTargetLenient(target_column, X, y) ==
    IF ~y.given /\ target_column \in ColNames(X)
    THEN [ok |-> TRUE, X |-> DropColumns(X, {target_column}), y |-> ColumnOf(X, target_column)]
    ELSE [ok |-> TRUE, X |-> X, y |-> Column(target_column, "number", [i \in 1..X.n |-> Num(0)])]

\* The entry of fit: y is taken from the table when not given; without
\* either there is nothing to fit on.
ExtractTarget(target_column, X, y) ==
    IF ~y.given /\ target_column \in ColNames(X)
    THEN [ok |-> TRUE, X |-> DropColumns(X, {target_column}), y |-> ColumnOf(X, target_column)]
    ELSE IF ~y.given THEN [ok |-> FALSE, X |-> X, y |-> y.col]
    ELSE [ok |-> TRUE, X |-> X, y |-> y.col]

\* FeatureEngineer.fit with no feature creation requested.
FeatureEngineerFit(t) ==
    [kind |-> "FeatureEngineer",
     feature_names_in_ |-> [i \in 1..Len(t.cols) |-> t.cols[i].name],
     numeric_columns_ |-> NamesOf(SelectSeq(t.cols, is_numeric_dtype))]

Result(self, status, err, msg) == [self |-> self, status |-> status, err |-> err, msg |-> msg]

\* What a fit that raises in pipeline.fit leaves behind, with the fitted
\* flag set as well.
FitAbandonedMarkedFitted(p) == [p EXCEPT !.is_fitted = TRUE]

\* What a fit that raises leaves behind: the attributes assigned up to the
\* raise; is_fitted is only assigned at the end of fit.
FitAbandoned(p) == p

\* AutoPreprocessor.fit, from its last statements back to its first: each
\* operator is the rest of fit, given what the statements before it computed.

\* ... the pipeline is fitted (it may raise), then feature names, label
\* encoder and report are stored and is_fitted is set.
FitStore(p4, y, X1, rc, low, pf, names) ==
    IF pf.status = "raised" THEN Result(FitAbandoned(p4), "raised", pf.err, "")
    ELSE Result([p4 EXCEPT
                   !.pipeline = pf.pl,
                   !.feature_names_out = names,
                   !.label_encoder = IF p4.task_type = "classification"
                                     THEN [kind |-> "LabelEncoder",
                                           classes_ |-> {c \in Range(y.vals) : ~IsNA(c)}]
                                     ELSE @,
                   !.preprocessing_report =
                       [kind |-> "report", task_type |-> p4.task_type,
                        original_features |-> Len(X1.cols), final_features |-> Len(names),
                        dropped_columns |-> p4.dropped_columns,
                        numeric_columns |-> rc.numeric_columns, categorical_columns |-> low],
                   !.is_fitted = TRUE],
                "ok", "", "")

\* ... the pipeline is assigned: None when there is nothing to transform
\* and nothing to drop.
FitPipeline(p3, y, X1, rc, low, pl) ==
    FitStore([p3 EXCEPT !.pipeline = pl], y, X1, rc, low,
             IF pl = PipelineNone THEN [status |-> "ok", err |-> "", pl |-> pl]
             ELSE PipelineFit(pl, rc.X_clean),
             get_feature_names_out(p3.cfg, rc.X_clean, rc.numeric_columns, low))

\* ... high-cardinality columns join dropped_columns, transformers are made.
FitTransformers(p3, y, X1, rc, low, dropped, transformers) ==
    FitPipeline([p3 EXCEPT !.dropped_columns = dropped], y, X1, rc, low,
                IF transformers # <<>> \/ dropped # <<>>
                THEN PipelineNew(dropped, transformers) ELSE PipelineNone)

\* ... columns are separated by type and re-checked.
FitSeparate(p3, y, X1, rc) ==
    FitTransformers(p3, y, X1, rc,
                    low_cardinality(p3.cfg, rc.X_clean, rc.categorical_columns),
                    p3.dropped_columns \o high_cardinality(p3.cfg, rc.X_clean, rc.categorical_columns),
                    create_transformers(p3.cfg, rc.numeric_columns,
                                        low_cardinality(p3.cfg, rc.X_clean, rc.categorical_columns)))

\* ... identifier columns are dropped, the feature engineer (if enabled) is
\* fitted; with no feature creation requested its transform returns a copy.
FitDrop(p2, y, X1, dropped, X_clean) ==
    FitSeparate([p2 EXCEPT !.dropped_columns = dropped,
                           !.feature_engineer = IF p2.cfg.enable_feature_engineering
                                                THEN FeatureEngineerFit(X_clean) ELSE @],
                y, X1, Reclassify(X_clean))

\* ... the validator (if enabled) is assigned, fitted and applied; its
\* quality score divides by the number of columns.
FitValidate(p1, y, X, v) ==
    IF ~p1.cfg.enable_validation
    THEN FitDrop(p1, y, X, identify_columns_to_drop(p1.cfg, X),
                 DropColumns(X, Range(identify_columns_to_drop(p1.cfg, X))))
    ELSE IF Len(X.cols) = 0
    THEN Result(FitAbandoned([p1 EXCEPT !.data_validator = v]), "raised", "ZeroDivisionError", "")
    ELSE FitDrop([p1 EXCEPT !.data_validator = v], y, ValidatorTransform(v, X),
                 identify_columns_to_drop(p1.cfg, ValidatorTransform(v, X)),
                 DropColumns(ValidatorTransform(v, X),
                             Range(identify_columns_to_drop(p1.cfg, ValidatorTransform(v, X)))))

\* ... the target is found or fit raises; the task type is detected if unset.
FitTarget(p, e) ==
    IF ~e.ok THEN Result(FitAbandoned(p), "raised", "ValueError", "target not found")
    ELSE FitValidate([p EXCEPT !.task_type = IF @ = "None" THEN detect_task_type(e.y) ELSE @],
                     e.y, e.X, ValidatorFit(DataValidatorNew(p.cfg), e.X))

\* AutoPreprocessor.fit
APFit(p, X, y) == FitTarget(p, ExtractTarget(p.cfg.target_column, X, y))

\* The result of a transform: the matrix by its shape, and which object
\* columns the conversion loop of transform turned numeric and which it left.
Transformed(self, o, converted, unconverted) ==
    [self |-> self, status |-> o.status, err |-> o.err, msg |-> "",
     ncols |-> o.ncols, nrows |-> o.nrows,
     converted |-> converted, unconverted |-> unconverted]
NotFitted(self) ==
    [self |-> self, status |-> "raised", err |-> "ValueError", msg |-> "not fitted",
     ncols |-> 0, nrows |-> 0, converted |-> {}, unconverted |-> {}]

\* AutoPreprocessor.transform
APTransform(p, X) ==
    LET cfg == p.cfg
        X1 == DropColumns(X, {cfg.target_column})
        X2 == IF cfg.enable_validation /\ p.data_validator # None
              THEN ValidatorTransform(p.data_validator, X1) ELSE X1
        object == {X2.cols[i] : i \in {j \in 1..Len(X2.cols) : ~is_numeric_dtype(X2.cols[j])}}
        converted == {c.name : c \in {x \in object : mostly_numeric(x)}}
        X3 == [X2 EXCEPT !.cols = [i \in 1..Len(X2.cols) |->
                  IF X2.cols[i].name \in converted THEN to_numeric(X2.cols[i]) ELSE X2.cols[i]]]
        o == IF p.pipeline = PipelineNone
             THEN Outcome(p.pipeline, "ok", "", Len(X3.cols), X3.n)
             ELSE PipelineTransform(p.pipeline, X3)
    IN  IF ~p.is_fitted THEN NotFitted(p)
        ELSE Transformed([p EXCEPT !.pipeline = o.pl], o, converted,
                         {c.name : c \in object} \ converted)

\* AutoPreprocessor.transform_target: the label encoder rejects a label it
\* has not seen.
APTransformTarget(p, y) ==
    IF ~p.is_fitted THEN Result(p, "raised", "ValueError", "not fitted")
    ELSE IF p.task_type = "classification" /\ p.label_encoder # None
            /\ ~(Range(y.vals) \subseteq p.label_encoder.classes_)
    THEN Result(p, "raised", "ValueError", "unseen labels")
    ELSE Result(p, "ok", "", "")

\* AutoPreprocessor.inverse_transform_target, codes being positions among
\* the encoder's classes.
APInverseTransformTarget(p, codes) ==
    IF ~p.is_fitted THEN Result(p, "raised", "ValueError", "not fitted")
    ELSE IF p.task_type = "classification" /\ p.label_encoder # None
            /\ \E i \in 1..Len(codes) : codes[i] >= Cardinality(p.label_encoder.classes_)
    THEN Result(p, "raised", "ValueError", "unseen labels")
    ELSE Result(p, "ok", "", "")

\* get_feature_names_out and get_preprocessing_report
APGetter(p) ==
    IF ~p.is_fitted THEN Result(p, "raised", "ValueError", "not fitted")
    ELSE Result(p, "ok", "", "")

\* AutoPreprocessor.fit_transform after its fit: transform, then
\* transform_target; fit_returned tells whether the fit inside returned.
FitTransformRest(f, t, tt) ==
    IF t.status = "raised" THEN [fit_returned |-> TRUE] @@ t
    ELSE IF tt.status = "raised"
    THEN [fit_returned |-> TRUE] @@ [t EXCEPT !.status = "raised", !.err = tt.err, !.msg = tt.msg]
    ELSE [fit_returned |-> TRUE] @@ t
\* yrows is the length of the target vector returned with the matrix.
FitTransformFitted(f, X_features, y) ==
    IF f.status = "raised"
    THEN [fit_returned |-> FALSE, yrows |-> 0]
            @@ [NotFitted(f.self) EXCEPT !.err = f.err, !.msg = f.msg]
    ELSE [yrows |-> Len(y.col.vals)]
            @@ FitTransformRest(f, APTransform(f.self, X_features), APTransformTarget(f.self, y.col))
FitTransformFeatures(p, X_features, y) ==
    FitTransformFitted(APFit(p, X_features, y), X_features, y)

\* AutoPreprocessor.fit_transform
APFitTransform(p, X, y) ==
    FitTransformFeatures(p, DropColumns(X, {p.cfg.target_column}),
                         IF ~y.given /\ p.cfg.target_column \in ColNames(X)
                         THEN GivenY(ColumnOf(X, p.cfg.target_column)) ELSE y)

(***************************************************************************)
(* The calls made on one AutoPreprocessor.  Tables have a numeric column   *)
(* "n", an object column "c", or both, and optionally the target column    *)
(* "y"; a target vector passed separately holds the same values.  Object   *)
(* columns in which more than half but not most of the values read as      *)
(* numbers are left out (whether pandas reads a bare numeral as a date     *)
(* decides their type fix).                                                *)
(***************************************************************************)
DefaultConfig ==
    [target_column |-> "y", task_type |-> "None", max_cardinality |-> max_cardinality,
     drop_id_columns |-> TRUE, handle_missing |-> TRUE, missing_strategy |-> "median",
     scaling_strategy |-> "standard", handle_outliers |-> TRUE, outlier_method |-> "iqr",
     categorical_encoding |-> "onehot", enable_feature_engineering |-> FALSE,
     enable_validation |-> TRUE, remove_duplicates |-> TRUE,
     remove_constant_features |-> TRUE, remove_high_missing |-> TRUE]

NumCells == {NA, Num(Unit)}
ObjCells == {NA, Num(Unit), Txt(1)}
NumbersIn(vals) == Cardinality({i \in 1..Len(vals) : vals[i].k = "num"})
ObjColumns ==
    {vals \in CellSeqs(ObjCells, MaxRows) :
        ~(NumbersIn(vals) * 2 > notna_count(vals) /\ NumbersIn(vals) < notna_count(vals))}
FeatureTables ==
    {Table(Len(vals), <<Column("n", "number", vals)>>) : vals \in CellSeqs(NumCells, MaxRows)}
      \cup {Table(Len(vals), <<Column("c", "object", vals)>>) : vals \in ObjColumns}
      \cup {Table(2, <<Column("n", "number", <<Num(0), Num(Unit)>>), Column("c", "object", vals)>>) :
              vals \in {<<Txt(1), NA>>, <<Num(Unit), Txt(1)>>, <<Num(Unit), Num(Unit)>>}}
TargetColumn(n) == Column("y", "number", [i \in 1..n |-> Num(Unit * ((i - 1) % 2))])
WithTarget(t) == [t EXCEPT !.cols = @ \o <<TargetColumn(t.n)>>]
APTables == FeatureTables \cup {WithTarget(t) : t \in FeatureTables}
\* What fit and fit_transform are called with: a table that holds the target
\* and no y, or a table without it and y passed or not.
FitInputs ==
    {<<WithTarget(t), NoY>> : t \in FeatureTables}
      \cup {<<t, GivenY(TargetColumn(t.n))>> : t \in FeatureTables}
      \cup {<<t, NoY>> : t \in FeatureTables}

Call(op, r, no_target) ==
    [op |-> op, status |-> r.status, err |-> r.err, msg |-> r.msg,
     ncols |-> r.ncols, nrows |-> r.nrows,
     converted |-> r.converted, unconverted |-> r.unconverted, no_target |-> no_target]
CallPlain(op, r, no_target) ==
    [op |-> op, status |-> r.status, err |-> r.err, msg |-> r.msg,
     ncols |-> 0, nrows |-> 0, converted |-> {}, unconverted |-> {}, no_target |-> no_target]
NoCall == CallPlain("none", Result(None, "ok", "", ""), FALSE)

\* A preprocessor as constructed with cfg.
APNew(cfg) ==
    /\ ap = AutoPreprocessorNew(cfg)
    /\ apLast = NoCall
    /\ apDone = FALSE

APFitCall ==
    /\ apLast = NoCall
    /\ \E in \in FitInputs :
        \E r \in {APFit(ap, in[1], in[2])} :
            /\ ap' = r.self
            /\ apLast' = CallPlain("fit", r, ~in[2].given /\ "y" \notin ColNames(in[1]))
            /\ apDone' = (apDone \/ r.status = "ok")
            /\ UNCHANGED notPreprocessor

APFitTransformCall ==
    /\ apLast = NoCall
    /\ \E in \in FitInputs :
        \E r \in {APFitTransform(ap, in[1], in[2])} :
            /\ ap' = r.self
            /\ apLast' = [yrows |-> r.yrows, xrows |-> in[1].n]
                            @@ Call("fit_transform", r, ~in[2].given /\ "y" \notin ColNames(in[1]))
            /\ apDone' = (apDone \/ r.fit_returned)
            /\ UNCHANGED notPreprocessor

APTransformCall ==
    /\ apLast = NoCall
    /\ \E X \in APTables :
        \E r \in {APTransform(ap, X)} :
            /\ ap' = r.self
            /\ apLast' = Call("transform", r, FALSE)
            /\ UNCHANGED <<apDone, notPreprocessor>>

APTransformTargetCall ==
    /\ apLast = NoCall
    /\ \E n \in 1..MaxRows :
        \E r \in {APTransformTarget(ap, TargetColumn(n))} :
            /\ ap' = r.self
            /\ apLast' = CallPlain("transform_target", r, FALSE)
            /\ UNCHANGED <<apDone, notPreprocessor>>

APInverseTransformTargetCall ==
    /\ apLast = NoCall
    /\ \E codes \in {<<0>>, <<0, 1>>} :
        \E r \in {APInverseTransformTarget(ap, codes)} :
            /\ ap' = r.self
            /\ apLast' = CallPlain("inverse_transform_target", r, FALSE)
            /\ UNCHANGED <<apDone, notPreprocessor>>

APGetFeatureNamesOutCall ==
    /\ apLast = NoCall
    /\ \E r \in {APGetter(ap)} :
        /\ ap' = r.self
        /\ apLast' = CallPlain("get_feature_names_out", r, FALSE)
        /\ UNCHANGED <<apDone, notPreprocessor>>

APGetPreprocessingReportCall ==
    /\ apLast = NoCall
    /\ \E r \in {APGetter(ap)} :
        /\ ap' = r.self
        /\ apLast' = CallPlain("get_preprocessing_report", r, FALSE)
        /\ UNCHANGED <<apDone, notPreprocessor>>

\* The caller has the result (or the exception) of the call; the next call
\* can be made.
APReturn ==
    /\ apLast # NoCall
    /\ apLast' = NoCall
    /\ UNCHANGED <<ap, apDone, notPreprocessor>>

APNext ==
    \/ APFitCall
    \/ APFitTransformCall
    \/ APTransformCall
    \/ APTransformTargetCall
    \/ APInverseTransformTargetCall
    \/ APGetFeatureNamesOutCall
    \/ APGetPreprocessingReportCall
    \/ APReturn

\* The preprocessor while another subsystem is being checked.
APRest == APNew(DefaultConfig)

(***************************************************************************)
(* train_from_api (train_api.py): the target column is checked and         *)
(* cleaned, the task type corrected, the model names mapped, and           *)
(* train_models called.  Every exception is caught and reported as a       *)
(* failure result.                                                         *)
(***************************************************************************)
MaxApiRows == 11               \* numeric values in the target column: up to MaxApiRows
target_conversion_pct == 90    \* conversion_rate > 0.9
continuous_ratio_pct == 10     \* unique_ratio > 0.1
max_classes == 100             \* unique_count > 100
min_training_rows == 10        \* len(df) < 10

\* A target column of m missing values, t texts that read as no number and
\* k values that are (or read as) numbers, u of them distinct.
TargetSeries(dtype, m, t, k, u) ==
    Column("y", dtype,
           [i \in 1..(m + t + k) |->
               IF i <= m THEN NA
               ELSE IF i <= m + t THEN Txt(i - m)
               ELSE Num(Unit * ((i - m - t) % u))])

\* df[df[target_column].notna()]: the rows whose target is not missing.
WithoutMissingAsIs(col) == col
WithoutMissing(col) == [col EXCEPT !.vals = DropNA(col.vals)]

\* map_frontend_to_python_models
FrontendMapping ==
    [m \in {"random_forest", "gradient_boosting", "xgboost", "logistic_regression",
            "linear_regression", "svm", "neural_network"} |->
        IF m = "gradient_boosting" THEN "lgbm" ELSE IF m = "xgboost" THEN "xgb" ELSE "rf"]
RECURSIVE map_frontend_to_python_models(_)
map_frontend_to_python_models(frontend_models) ==
    IF frontend_models = <<>> THEN <<>>
    ELSE LET n == Len(frontend_models)
             python_models == map_frontend_to_python_models(SubSeq(frontend_models, 1, n - 1))
             model == frontend_models[n]
             python_model == IF model \in DOMAIN FrontendMapping
                             THEN FrontendMapping[model] ELSE "rf"
         IN  IF python_model \in Range(python_models) THEN python_models
             ELSE Append(python_models, python_model)

\* The target is converted to numbers when it is stored as text and more
\* than 90% of its rows read as numbers; the rows that do not are dropped.
ConvertTarget(col) ==
    IF is_numeric_dtype(col)
    THEN [col |-> col, is_numeric |-> TRUE, log |-> <<>>]
    ELSE LET target_numeric == to_numeric(col)
             n == Len(col.vals)
         IN  IF n > 0 /\ notna_count(target_numeric.vals) * 100 > target_conversion_pct * n
             THEN [col |-> WithoutMissing(target_numeric), is_numeric |-> TRUE,
                   log |-> IF n > notna_count(target_numeric.vals)
                           THEN <<"warning: dropped rows">> ELSE <<>>]
             ELSE [col |-> col, is_numeric |-> FALSE, log |-> <<>>]

\* The requested task type is kept whatever the target looks like.
CheckTaskTypeKeep(original_task_type, col, is_numeric) ==
    IF Len(col.vals) = 0
    THEN [status |-> "raised", err |-> "ZeroDivisionError", task_type |-> original_task_type, log |-> <<>>]
    ELSE [status |-> "ok", err |-> "", task_type |-> original_task_type, log |-> <<>>]

\* The task type train_models is given: the requested one, switched when the
\* target does not fit it.  unique_ratio divides by the number of rows.
CheckTaskType(original_task_type, col, is_numeric) ==
    LET n == Len(col.vals)
        unique_count == nunique(col.vals)
    IN  IF n = 0
        THEN [status |-> "raised", err |-> "ZeroDivisionError", task_type |-> original_task_type, log |-> <<>>]
        ELSE IF original_task_type = "classification" /\ is_numeric
                /\ unique_count * 100 > continuous_ratio_pct * n
        THEN [status |-> "ok", err |-> "", task_type |-> "regression",
              log |-> <<"warning: switching to regression">>]
        ELSE IF original_task_type = "regression" /\ ~is_numeric
        THEN [status |-> "ok", err |-> "", task_type |-> "classification",
              log |-> <<"warning: switching to classification">>]
        ELSE IF original_task_type = "classification" /\ unique_count > max_classes
        THEN [status |-> "raised", err |-> "ValueError", task_type |-> original_task_type, log |-> <<>>]
        ELSE [status |-> "ok", err |-> "", task_type |-> original_task_type, log |-> <<>>]

\* The final check: rows whose target is still missing are removed.
RemoveMissingTarget(col) ==
    [col |-> WithoutMissing(col),
     log |-> IF notna_count(col.vals) < Len(col.vals)
             THEN <<"warning: removing missing targets">> ELSE <<>>]

NoTrainArgs == [task_type |-> "", models_to_try |-> <<>>, target |-> Column("y", "object", <<>>)]
NoTrained == [all_models |-> <<>>, best_model |-> ""]
NoExport == [success |-> FALSE, attempted |-> FALSE, error |-> ""]
NoResults ==
    [success |-> FALSE, error |-> "", task_type |-> "", all_models |-> <<>>, best_model |-> "",
     export_info |-> FALSE, export_result |-> NoExport]

\* trained is what train_models returned and save how the saving of the model
\* went ("" while it has not been tried).
ApiIdle ==
    [pc |-> "idle", task_type |-> "", models_to_try |-> <<>>,
     csv_target |-> Column("y", "object", <<>>), is_numeric |-> FALSE,
     rows |-> 0, log |-> <<>>, train_args |-> NoTrainArgs, result |-> NoResults,
     trained |-> NoTrained, save |-> ""]

\* The except clause: the failure is logged and returned as a result.
ApiFailed(a, err, log) ==
    [a EXCEPT !.pc = "returned", !.log = log,
              !.result = [NoResults EXCEPT !.error = err]]

\* train_from_api from the row-count check to the call of train_models.
ApiStart(a, task_type, removed, log) ==
    IF Len(removed.col.vals) < min_training_rows
    THEN ApiFailed([a EXCEPT !.rows = Len(removed.col.vals)], "ValueError", log \o removed.log)
    ELSE [a EXCEPT !.pc = "training",
                   !.rows = Len(removed.col.vals),
                   !.log = log \o removed.log \o <<"train_models">>,
                   !.train_args = [task_type |-> task_type,
                                   models_to_try |-> map_frontend_to_python_models(a.models_to_try),
                                   target |-> removed.col]]

\* train_from_api from the task-type check on.
ApiCheck(a, converted, checked) ==
    IF checked.status = "raised"
    THEN ApiFailed(a, checked.err, converted.log)
    ELSE ApiStart([a EXCEPT !.is_numeric = converted.is_numeric], checked.task_type,
                  RemoveMissingTarget(converted.col), converted.log \o checked.log)

\* train_from_api up to the call of train_models.
ApiPrepare(a, has_target, converted) ==
    IF ~has_target
    THEN ApiFailed(a, "ValueError", <<>>)
    ELSE ApiCheck(a, converted, CheckTaskType(a.task_type, converted.col, converted.is_numeric))

\* train_from_dataframe: models_to_try or ['rf', 'lgbm', 'xgb']
ModelsOrDefault(models_to_try) ==
    IF models_to_try = <<>> THEN <<"rf", "lgbm", "xgb">> ELSE models_to_try

\* The calls of the model: targets with few or many rows, stored as numbers
\* or as text, and model names the front end knows, maps to another family,
\* or does not know.
FrontendNames == {"random_forest", "gradient_boosting", "xgboost", "svm", "catboost"}
ApiNumCounts == {0} \cup ((MaxApiRows - 2)..MaxApiRows)
ApiTargets ==
    {TargetSeries("number", m, 0, k, u) :
        m \in 0..1, k \in ApiNumCounts, u \in {1, MaxApiRows + 1}}
    \cup {TargetSeries("object", m, t, k, u) :
        m \in 0..1, t \in 0..2, k \in ApiNumCounts, u \in {1, MaxApiRows + 1}}

\* train_from_api is called and runs up to the call of train_models, or to
\* the failure it reports.
ApiCall ==
    /\ api.pc = "idle"
    /\ \E has_target \in BOOLEAN, task \in TaskTypes, target \in ApiTargets :
         \E models \in SeqsUpTo(FrontendNames, MaxModels) :
            api' = ApiPrepare([ApiIdle EXCEPT !.task_type = task, !.models_to_try = models,
                                             !.csv_target = target],
                              has_target, ConvertTarget(target))
    /\ UNCHANGED notApi

\* How save_trained_model_simple can end: it saves the model, it catches a
\* failure and returns a failure result, or an exception leaves the try block
\* of stage 5 (raised by the function's except clause or by the lines around
\* the call).
SaveOutcomes == {"saved", "failure result", "exception"}

\* A variant in which an exception of the saving stage reaches the outer
\* except clause of train_from_api.
ApiExportFatal(a, trained, save) ==
    IF save = "exception"
    THEN ApiFailed([a EXCEPT !.trained = trained, !.save = save], "Exception", a.log)
    ELSE [a EXCEPT !.pc = "returned", !.trained = trained, !.save = save,
                   !.result = [success |-> TRUE, error |-> "",
                               task_type |-> a.train_args.task_type,
                               all_models |-> trained.all_models,
                               best_model |-> trained.best_model,
                               export_info |-> (save = "saved"),
                               export_result |-> [success |-> (save = "saved"), attempted |-> TRUE,
                                                  error |-> IF save = "saved" THEN "" ELSE "Exception"]]]

\* train_from_api after train_models returned: the results are serialised, the
\* model is saved, and the success result is returned. A save that returns a
\* failure result or raises is logged as a warning and kept in export_result;
\* export_info is added to the serialised results only after a save that
\* succeeded.
ApiExport(a, trained, save) ==
    [a EXCEPT !.pc = "returned", !.trained = trained, !.save = save,
              !.log = IF save = "saved" THEN a.log ELSE a.log \o <<"warning: model save failed">>,
              !.result = [success |-> TRUE, error |-> "",
                          task_type |-> a.train_args.task_type,
                          all_models |-> trained.all_models,
                          best_model |-> trained.best_model,
                          export_info |-> (save = "saved"),
                          export_result |-> [success |-> (save = "saved"), attempted |-> TRUE,
                                             error |-> IF save = "saved" THEN "" ELSE "Exception"]]]

\* train_models raises, which is reported as a failure, or returns its
\* results, which are serialised and saved, and the success result returned.
ApiTrainModels ==
    /\ api.pc = "training"
    /\ \/ api' = ApiFailed(api, "Exception", api.log)
       \/ \E best \in Range(ModelsOrDefault(api.train_args.models_to_try)), save \in SaveOutcomes :
             api' = ApiExport(api,
                              [all_models |-> ModelsOrDefault(api.train_args.models_to_try),
                               best_model |-> best],
                              save)
    /\ UNCHANGED notApi

\* The caller has the result.
ApiReturn ==
    /\ api.pc = "returned"
    /\ api' = ApiIdle
    /\ UNCHANGED notApi

ApiNext == ApiCall \/ ApiTrainModels \/ ApiReturn

ApiRest == api = ApiIdle

(***************************************************************************)
(* DataValidator, called on its own: fit and transform on tables the       *)
(* caller holds.                                                           *)
(***************************************************************************)
MaxFits == 2            \* fit calls on one validator: up to MaxFits

DVNoCall ==
    [op |-> "none", before |-> Table(0, <<>>), heap |-> <<>>, ret |-> 0,
     self_before |-> DataValidatorNew(DefaultConfig)]

DVConfigs ==
    {[DefaultConfig EXCEPT !.remove_duplicates = d, !.remove_constant_features = c,
                           !.remove_high_missing = c] : d \in BOOLEAN, c \in BOOLEAN}

\* The tables of the model: one column of numbers, one column of texts that
\* read as numbers, as dates or as neither, or one of each.
DVCells == {NA, Num(Unit), Txt(1), Date(1)}
DVTables ==
    {Table(Len(vals), <<Column("n", "number", vals)>>) : vals \in CellSeqs(NumCells, MaxRows)}
      \cup {Table(Len(vals), <<Column("c", "object", vals)>>) : vals \in CellSeqs(DVCells, MaxRows)}
      \cup {Table(2, <<Column("n", "number", <<Num(0), Num(a)>>),
                       Column("c", "object", <<Txt(1), Txt(b)>>)>>) :
               a \in {0, Unit}, b \in 1..2}

DVNew(cfg) ==
    /\ dv = [self |-> DataValidatorNew(cfg), fits |-> 0]
    /\ dvLast = DVNoCall

\* validator.fit(X): X is at place 1 of the caller's heap.
DVFitCall ==
    /\ dvLast = DVNoCall
    /\ dv.fits < MaxFits
    /\ \E X \in DVTables :
          /\ dv' = [self |-> ValidatorFit(dv.self, X), fits |-> dv.fits + 1]
          /\ dvLast' = [op |-> "fit", before |-> X, heap |-> <<X>>, ret |-> 0,
                        self_before |-> dv.self]
    /\ UNCHANGED notValidator

\* validator.transform(X): X is at place 1 of the caller's heap.
DVTransformCall ==
    /\ dvLast = DVNoCall
    /\ \E X \in DVTables :
          \E r \in {ValidatorTransformObject(dv.self, <<X>>, 1)} :
             dvLast' = [op |-> "transform", before |-> X, heap |-> r.heap, ret |-> r.id,
                        self_before |-> dv.self]
    /\ dv' = dv
    /\ UNCHANGED notValidator

\* The caller has the result.
DVReturn ==
    /\ dvLast # DVNoCall
    /\ dvLast' = DVNoCall
    /\ dv' = dv
    /\ UNCHANGED notValidator

DVNext == DVFitCall \/ DVTransformCall \/ DVReturn

DVRest == DVNew(DefaultConfig)

(***************************************************************************)
(* Helper functions, called on their own.                                  *)
(***************************************************************************)
MaxDetectRows == 22     \* distinct values of a target given to detect_task_type: 0..MaxDetectRows

FnIdle == [op |-> "none", arg |-> <<>>, result |-> ""]

\* A target of m missing values and k values, u of them distinct: texts for
\* object storage, whole numbers otherwise, the first value with a
\* fractional part if frac.
DetectSeries(dtype, m, k, u, frac) ==
    Column("y", dtype,
           [i \in 1..(m + k) |->
               IF i <= m THEN NA
               ELSE IF dtype = "object" THEN Txt((i - m) % u)
               ELSE Num(Unit * ((i - m) % u) + (IF frac /\ i = m + 1 THEN 1 ELSE 0))])

\* Integer storage holds neither missing values nor fractions.
DetectTargets ==
    {DetectSeries("integer", 0, u + r, u, FALSE) : u \in 1..MaxDetectRows, r \in 0..1}
    \cup {DetectSeries(dtype, m, u + r, u, frac) :
            dtype \in {"number", "object"}, m \in 0..1, u \in 1..MaxDetectRows,
            r \in 0..1, frac \in BOOLEAN}
    \cup {DetectSeries("number", m, 0, 1, FALSE) : m \in 0..1}

\* detect_task_type(y), under an interpreter with or without int.is_integer.
DetectTaskTypeCall ==
    /\ fn = FnIdle
    /\ \E y \in DetectTargets, int_has_is_integer \in BOOLEAN :
          fn' = [op |-> "detect_task_type", arg |-> y,
                 result |-> ResolveIsInteger(detect_task_type(y), int_has_is_integer)]
    /\ UNCHANGED notFunctions

MaxIdRows == 21         \* rows of a table given to _identify_columns_to_drop: 1..MaxIdRows

\* The i-th value of a column of one shape; values of different i differ.
\*   "word":  two letters            "mixed": letters and digits, as a1b2
\*   "long":  nine letters           "late":  two letters in the sampled rows,
\*                                            nine letters after them
IdValue(shape, i) ==
    LET a == Letters[(i \div 5) + 1]
        b == Letters[(i % 5) + 1]
        long == <<"a", "a", "a", "a", "a", "a", "a", a, b>>
    IN  IF shape = "word" THEN Str(<<a, b>>)
        ELSE IF shape = "mixed" THEN Str(<<"a", Digits[(i \div 5) + 1], "b", Digits[(i % 5) + 1]>>)
        ELSE IF shape = "long" THEN Str(long)
        ELSE IF i < id_sample_size THEN Str(<<a, b>>) ELSE Str(long)

\* A column of n values of one shape: all different, or the last repeating
\* the first, or the last missing.
IdColumn(name, n, shape, flaw) ==
    Column(name, "object",
           [i \in 1..n |->
               IF i = n /\ flaw = "missing" THEN NA
               ELSE IF i = n /\ flaw = "repeat" THEN IdValue(shape, 0)
               ELSE IdValue(shape, i - 1)])

IdTables ==
    {Table(n, <<IdColumn(name, n, shape, flaw)>>) :
        name \in {"id", "c"}, n \in 1..MaxIdRows,
        shape \in {"word", "mixed", "long", "late"}, flaw \in {"none", "repeat", "missing"}}

\* _identify_columns_to_drop(X) of a preprocessor with or without
\* drop_id_columns.
IdentifyColumnsToDropCall ==
    /\ fn = FnIdle
    /\ \E X \in IdTables, drop_id_columns \in BOOLEAN :
          fn' = [op |-> "_identify_columns_to_drop",
                 arg |-> [X |-> X, drop_id_columns |-> drop_id_columns],
                 result |-> identify_columns_to_drop(
                               [DefaultConfig EXCEPT !.drop_id_columns = drop_id_columns], X)]
    /\ UNCHANGED notFunctions

MaxTypeCells == 4       \* values of one kind in a column given to _analyze_data_types: 0..MaxTypeCells
MaxSampleRows == 102    \* rows of the long columns given to _analyze_data_types

\* n cells, all equal to cell.
Repeat(cell, n) == [i \in 1..n |-> cell]

\* A column of m missing values, d dates, b years (dates that are numbers
\* too), k numbers and t other texts, in this order or, the missing values
\* aside, in the opposite one.
TypeColumn(dtype, m, d, b, k, t, dates_first) ==
    Column("c", dtype,
           Repeat(NA, m) \o
           (IF dates_first
            THEN Repeat(Date(1), d) \o Repeat(NumDate(Unit), b) \o Repeat(Num(Unit), k) \o Repeat(Txt(1), t)
            ELSE Repeat(Txt(1), t) \o Repeat(Num(Unit), k) \o Repeat(NumDate(Unit), b) \o Repeat(Date(1), d)))

\* Short columns around the 80% and the 50% marks, long columns whose first
\* 100 values are not all of their values, and columns of numeric storage.
TypeColumns ==
    {TypeColumn("object", m, d, b, k, t, TRUE) :
        m \in 0..1, d \in 0..2, b \in 0..1, k \in 0..MaxTypeCells, t \in 0..1}
    \cup {TypeColumn("object", 0, d, 0, 0, t, f) :
        d \in ((MaxSampleRows \div 2) - 1)..(MaxSampleRows \div 2),
        t \in ((MaxSampleRows \div 2) - 1)..(MaxSampleRows \div 2), f \in BOOLEAN}
    \cup {TypeColumn("number", m, 0, 0, k, 0, TRUE) : m \in 0..1, k \in 0..MaxTypeCells}

\* validator._analyze_data_types(X) for a table of one column.
AnalyzeDataTypesCall ==
    /\ fn = FnIdle
    /\ \E col \in TypeColumns :
          fn' = [op |-> "_analyze_data_types",
                 arg |-> Table(Len(col.vals), <<col>>),
                 result |-> analyze_data_types(Table(Len(col.vals), <<col>>))]
    /\ UNCHANGED notFunctions

\* model.best_params: the parameters the family's search chose, known here by
\* the family.
best_params(model) == [family |-> model.model_name]

\* fold_data of serialize_training_results: the fold with the parameters of
\* the model in whose loop it is serialised.
FoldData(model, fold) ==
    [fold_idx |-> fold.fold_idx, model_params |-> best_params(model),
     train_indices |-> fold.train_indices, val_indices |-> fold.val_indices,
     val_predictions |-> fold.val_predictions, val_actual |-> fold.val_actual]

\* model_data of serialize_training_results
ModelData(model) ==
    [model_name |-> model.model_name, mean_score |-> model.mean_score,
     fold_results |-> [j \in 1..Len(model.fold_results) |-> FoldData(model, model.fold_results[j])],
     all_predictions |-> model.all_predictions, all_actuals |-> model.all_actuals]

\* serialize_training_results: the response's best_model takes its
\* fold_results from all_models[0].
serialize_training_results(results) ==
    LET all_models == [m \in 1..Len(results.all_models) |-> ModelData(results.all_models[m])]
    IN  [best_model |-> [model_name |-> results.best_model.model_name,
                         mean_score |-> results.best_model.mean_score,
                         fold_results |-> IF all_models # <<>> THEN all_models[1].fold_results
                                          ELSE <<>>,
                         all_predictions |-> results.best_model.all_predictions,
                         all_actuals |-> results.best_model.all_actuals],
         all_models |-> all_models]

\* The TrainingResults train returns for a list of trained models.
TrainingResults(results) ==
    [best_model |-> select_best_model(results), all_models |-> results]

\* Results of trainings of one to MaxModels families on two rows in two folds.
SerializeInputs ==
    {TrainingResults([m \in 1..Len(names) |->
                         ModelTrainingResult(names[m], scores[m], f, 2, 2)]) :
        names \in SeqsUpTo({"rf", "lgbm"}, MaxModels) \ {<<>>},
        scores \in [1..MaxModels -> 0..MaxScore],
        f \in CvSplits([kind |-> "KFold", n_splits |-> 2], 2, <<>>)}

SerializeTrainingResultsCall ==
    /\ fn = FnIdle
    /\ \E results \in SerializeInputs :
          fn' = [op |-> "serialize_training_results", arg |-> results,
                 result |-> serialize_training_results(results)]
    /\ UNCHANGED notFunctions

\* _train_single_model asks for the feature importance of the best estimator
\* (lines 255-257). Whether the estimator has feature_importances_, and whether
\* permutation_importance raises, are the environment's.
CalculateFeatureImportanceCall ==
    /\ fn = FnIdle
    /\ \E has_native \in BOOLEAN, permutation_raises \in BOOLEAN :
          LET model == [has_feature_importances |-> has_native]
          IN  fn' = [op |-> "_calculate_feature_importance",
                     arg |-> [model |-> model, permutation_raises |-> permutation_raises],
                     result |-> calculate_feature_importance(model, permutation_raises)]
    /\ UNCHANGED notFunctions

\* The caller has the result.
FnReturn ==
    /\ fn # FnIdle
    /\ fn' = FnIdle
    /\ UNCHANGED notFunctions

FnNext ==
    \/ DetectTaskTypeCall
    \/ IdentifyColumnsToDropCall
    \/ AnalyzeDataTypesCall
    \/ CalculateFeatureImportanceCall
    \/ SerializeTrainingResultsCall
    \/ FnReturn

FnRest == fn = FnIdle


(***************************************************************************)
(* The HTTP server: /train runs train_api.py and waits for it; /train_async *)
(* starts a background task that runs it and emits the session's events,   *)
(* which a client reads from /training/stream/{session_id}.  The handlers  *)
(* and the task are coroutines of one event loop: each action is the code  *)
(* between two points at which a coroutine waits.                          *)
(***************************************************************************)
\* sys.argv of the script as /train starts it, and as the background task of
\* /train_async starts it.
TrainArgv == <<"train_api.py", "csv_path", "config_json">>
TrainAsyncArgv == <<"train_api.py", "csv_path", "config_json", "--session-id", "session_id">>

\* main of train_api.py: the exit code, train_ok telling whether train_from_api
\* succeeds on the CSV and config ...
main(argv, train_ok) ==
    IF Len(argv) # 3 THEN 1
    ELSE IF train_ok THEN 0 ELSE 1

\* ... and the lines it writes to stdout: the usage line, or the progress of
\* the training and the result.
Stdout(argv, train_ok) ==
    IF Len(argv) # 3 THEN <<"Usage">>
    ELSE <<"PROGRESS", "{result}">>

NoSession ==
    [status |-> "none", statuses |-> <<>>, file |-> "none", task |-> "none",
     train_ok |-> FALSE, lines |-> 0, returncode |-> 0 - 1, raised |-> FALSE,
     has_queue |-> FALSE, queue |-> <<>>, stream |-> "none",
     received |-> <<>>, emitted |-> <<>>, dropped |-> <<>>]

NoRequest == [pc |-> "idle", file |-> "none", response |-> "none", path |-> "none"]

\* A variant of emit_training_event that makes the session's queue when it
\* is not there.
emit_training_event_creating(s, event_type) ==
    [s EXCEPT !.has_queue = TRUE, !.queue = Append(s.queue, event_type),
              !.emitted = Append(s.emitted, event_type)]

\* emit_training_event: the event is put on the session's queue when the
\* session has one, and otherwise goes nowhere.
emit_training_event(s, event_type) ==
    IF s.has_queue
    THEN [s EXCEPT !.queue = Append(s.queue, event_type),
                   !.emitted = Append(s.emitted, event_type)]
    ELSE [s EXCEPT !.dropped = Append(s.dropped, event_type),
                   !.emitted = Append(s.emitted, event_type)]

\* training_sessions[session_id]['status'] = status
SetStatus(s, status) ==
    [s EXCEPT !.status = status, !.statuses = Append(s.statuses, status)]

\* The except clause of run_training_with_streaming.
TaskFailed(s) ==
    emit_training_event([SetStatus(s, "error") EXCEPT !.task = "done", !.raised = TRUE], "error")

\* train_model_async: the temporary file is written, the session stored and
\* the background task created.
TrainAsyncCall ==
    /\ sess = NoSession
    /\ \E train_ok \in BOOLEAN :
          sess' = [SetStatus(NoSession, "starting") EXCEPT
                      !.file = "exists", !.task = "created", !.train_ok = train_ok]
    /\ UNCHANGED req
    /\ UNCHANGED notServer

\* run_training_with_streaming up to create_subprocess_exec.
TaskStart ==
    /\ sess.task = "created"
    /\ sess' = [emit_training_event(sess, "status") EXCEPT !.task = "spawning"]
    /\ UNCHANGED req
    /\ UNCHANGED notServer

\* create_subprocess_exec returns the process, or raises.
TaskSpawn ==
    /\ sess.task = "spawning"
    /\ \/ sess' = [emit_training_event(SetStatus(sess, "running"), "status") EXCEPT !.task = "reading"]
       \/ sess' = TaskFailed(sess)
    /\ UNCHANGED req
    /\ UNCHANGED notServer

\* process.stdout.readline() returns a line, which is emitted, or the end of
\* the output, or raises.
TaskReadLine ==
    /\ sess.task = "reading"
    /\ LET out == Stdout(TrainAsyncArgv, sess.train_ok)
       IN  \/ /\ sess.lines < Len(out)
              /\ sess' = [emit_training_event(sess,
                              IF out[sess.lines + 1] = "PROGRESS" THEN "progress" ELSE "log")
                             EXCEPT !.lines = sess.lines + 1]
           \/ /\ sess.lines = Len(out)
              /\ sess' = [sess EXCEPT !.task = "waiting"]
           \/ sess' = TaskFailed(sess)
    /\ UNCHANGED req
    /\ UNCHANGED notServer

\* process.wait() returns: the temporary file is removed, and the session
\* completed or failed by the exit code.
TaskFinish ==
    /\ sess.task = "waiting"
    /\ LET returncode == main(TrainAsyncArgv, sess.train_ok)
           s == [sess EXCEPT !.file = "deleted", !.returncode = returncode, !.task = "done"]
       IN  sess' = IF returncode = 0
                   THEN emit_training_event(SetStatus(s, "completed"), "complete")
                   ELSE emit_training_event(SetStatus(s, "error"), "error")
    /\ UNCHANGED req
    /\ UNCHANGED notServer

\* A client that has the session id opens the stream: the generator takes
\* training_event_queues[session_id], which makes the queue when it is not
\* there, and sends the connected event.
StreamOpen ==
    /\ sess.status # "none"
    /\ sess.stream = "none"
    /\ sess' = [sess EXCEPT !.stream = "open", !.has_queue = TRUE,
                            !.received = Append(sess.received, "connected")]
    /\ UNCHANGED req
    /\ UNCHANGED notServer

\* queue.get() returns an event, which is sent; after complete or error the
\* stream ends and the queue is deleted.
StreamGet ==
    /\ sess.stream = "open"
    /\ sess.queue # <<>>
    /\ LET event == Head(sess.queue)
           s == [sess EXCEPT !.queue = Tail(sess.queue),
                             !.received = Append(sess.received, event)]
       IN  sess' = IF event \in {"complete", "error"}
                   THEN [s EXCEPT !.stream = "closed", !.has_queue = FALSE, !.queue = <<>>]
                   ELSE s
    /\ UNCHANGED req
    /\ UNCHANGED notServer

\* The session is over and forgotten by the model.
SessionEnd ==
    /\ sess.task = "done"
    /\ sess.stream # "none"
    /\ sess.stream = "open" => sess.queue = <<>>
    /\ sess' = NoSession
    /\ UNCHANGED req
    /\ UNCHANGED notServer

\* How subprocess.run can end.
RunOutcomes == {"returns", "TimeoutExpired", "exception"}

\* train_model, which waits for the script: the response, and what became of
\* the temporary file.
train_model(config_ok, script_exists, run, train_ok, parse_ok) ==
    IF ~config_ok
    THEN [pc |-> "returned", file |-> "none", response |-> "400", path |-> "config"]
    ELSE IF ~script_exists
    THEN [pc |-> "returned", file |-> "deleted", response |-> "500", path |-> "exception"]
    ELSE IF run = "TimeoutExpired"
    THEN [pc |-> "returned", file |-> "deleted", response |-> "500", path |-> "timeout"]
    ELSE IF run = "exception"
    THEN [pc |-> "returned", file |-> "deleted", response |-> "500", path |-> "exception"]
    ELSE IF main(TrainArgv, train_ok) # 0
    THEN [pc |-> "returned", file |-> "deleted", response |-> "500", path |-> "non-zero exit"]
    ELSE IF ~parse_ok
    THEN [pc |-> "returned", file |-> "deleted", response |-> "500", path |-> "parse"]
    ELSE [pc |-> "returned", file |-> "deleted", response |-> "success", path |-> "success"]

TrainModelCall ==
    /\ req.pc = "idle"
    /\ \E config_ok \in BOOLEAN, script_exists \in BOOLEAN, run \in RunOutcomes,
          train_ok \in BOOLEAN, parse_ok \in BOOLEAN :
          req' = train_model(config_ok, script_exists, run, train_ok, parse_ok)
    /\ UNCHANGED sess
    /\ UNCHANGED notServer

\* The client has the response.
TrainModelReturn ==
    /\ req.pc = "returned"
    /\ req' = NoRequest
    /\ UNCHANGED sess
    /\ UNCHANGED notServer

ServerNext ==
    \/ TrainAsyncCall
    \/ TaskStart
    \/ TaskSpawn
    \/ TaskReadLine
    \/ TaskFinish
    \/ StreamOpen
    \/ StreamGet
    \/ SessionEnd
    \/ TrainModelCall
    \/ TrainModelReturn

ServerRest == sess = NoSession /\ req = NoRequest

(***************************************************************************)
(* Specifications                                                          *)
(***************************************************************************)
\* The subsystems a specification does not exercise, at rest.
OthersRest == ApiRest /\ DVRest /\ FnRest /\ ServerRest

TrainInit == TrainIdle /\ OHRest /\ APRest /\ OthersRest
SpecTrain == TrainInit /\ [][TrainNext]_vars

OHInit == OHNew /\ TrainIdle /\ APRest /\ OthersRest
SpecOutlier == OHInit /\ [][OHNext]_vars

\* Preprocessors under the default arguments and with one of validation,
\* feature engineering or the task type set otherwise.
PrepConfigs ==
    {DefaultConfig,
     [DefaultConfig EXCEPT !.enable_validation = FALSE],
     [DefaultConfig EXCEPT !.enable_feature_engineering = TRUE],
     [DefaultConfig EXCEPT !.task_type = "regression"]}
PrepInit == (\E cfg \in PrepConfigs : APNew(cfg)) /\ TrainIdle /\ OHRest /\ OthersRest
SpecPrep == PrepInit /\ [][APNext]_vars

\* Preprocessors with each categorical encoding, with and without imputation.
EncodingConfigs ==
    {[DefaultConfig EXCEPT !.categorical_encoding = e, !.handle_missing = h] :
        e \in {"onehot", "target", "ordinal", "frequency"}, h \in BOOLEAN}
EncodingInit == (\E cfg \in EncodingConfigs : APNew(cfg)) /\ TrainIdle /\ OHRest /\ OthersRest
SpecEncoding == EncodingInit /\ [][APNext]_vars

\* Preprocessors with each step switched off, and with a strategy name that
\* is none of the recognized ones.
RecognizedMissing == {"median", "mean", "mode", "knn", "iterative"}
RecognizedScaling == {"standard", "minmax", "robust", "none"}
RecognizedOutlier == {"iqr", "zscore"}
RecognizedEncoding == {"onehot", "target", "ordinal", "frequency"}
StrategyConfigs ==
    {DefaultConfig,
     [DefaultConfig EXCEPT !.handle_outliers = FALSE],
     [DefaultConfig EXCEPT !.handle_missing = FALSE],
     [DefaultConfig EXCEPT !.scaling_strategy = "none"],
     [DefaultConfig EXCEPT !.handle_outliers = FALSE, !.handle_missing = FALSE,
                           !.scaling_strategy = "none"],
     [DefaultConfig EXCEPT !.outlier_method = "zscore", !.missing_strategy = "mean",
                           !.scaling_strategy = "minmax", !.categorical_encoding = "ordinal"],
     [DefaultConfig EXCEPT !.missing_strategy = "average"],
     [DefaultConfig EXCEPT !.scaling_strategy = "zscale"],
     [DefaultConfig EXCEPT !.outlier_method = "mad"],
     [DefaultConfig EXCEPT !.categorical_encoding = "binary"]}
StrategyInit == (\E cfg \in StrategyConfigs : APNew(cfg)) /\ TrainIdle /\ OHRest /\ OthersRest
SpecStrategy == StrategyInit /\ [][APNext]_vars

ApiInit == ApiRest /\ TrainIdle /\ OHRest /\ APRest /\ DVRest /\ FnRest /\ ServerRest
SpecApi == ApiInit /\ [][ApiNext]_vars

DVInit == (\E cfg \in DVConfigs : DVNew(cfg)) /\ TrainIdle /\ OHRest /\ APRest /\ ApiRest /\ FnRest /\ ServerRest
SpecValidator == DVInit /\ [][DVNext]_vars

FnInit == FnRest /\ TrainIdle /\ OHRest /\ APRest /\ ApiRest /\ DVRest /\ ServerRest
SpecFn == FnInit /\ [][FnNext]_vars

ServerInit == ServerRest /\ TrainIdle /\ OHRest /\ APRest /\ ApiRest /\ DVRest /\ FnRest
SpecServer == ServerInit /\ [][ServerNext]_vars

(***************************************************************************)
(* Claims about ModelTrainer.train                                         *)
(***************************************************************************)
\* C1: when train returns, best_model is an element of all_models and its
\* mean_score is the maximum mean_score over all_models.
C1_BestModelIsMaximal ==
    tpc = "done" =>
        /\ \E i \in 1..Len(all_results) : all_results[i] = best_model
        /\ \A i \in 1..Len(all_results) :
              all_results[i].mean_score <= best_model.mean_score

\* C1 witness: train returned with two families, the first scoring higher.
C1_Witness ==
    /\ tpc = "done"
    /\ Len(all_results) = 2
    /\ all_results[1].mean_score > all_results[2].mean_score
    /\ best_model = all_results[1]

\* C6: for every family trained, every row 0..n-1 is in exactly one fold's
\* val_indices, and in each fold train_indices and val_indices are disjoint
\* and together cover all rows.
C6_FoldsPartitionRows ==
    \A m \in 1..Len(all_results) :
        LET fr == all_results[m].fold_results
            rows == 0..(tn - 1)
        IN  /\ Len(fr) = tcfg.cv_folds
            /\ \A r \in rows :
                  Cardinality({i \in 1..Len(fr) : r \in Range(fr[i].val_indices)}) = 1
            /\ \A i \in 1..Len(fr) :
                  /\ Range(fr[i].val_indices) \subseteq rows
                  /\ Range(fr[i].train_indices) \cap Range(fr[i].val_indices) = {}
                  /\ Range(fr[i].train_indices) \cup Range(fr[i].val_indices) = rows
                  /\ Len(fr[i].val_indices) = Cardinality(Range(fr[i].val_indices))
                  /\ Len(fr[i].train_indices) = Cardinality(Range(fr[i].train_indices))

\* C6 witness: two families trained on three rows in two folds, one of the
\* folds holding out two rows.
C6_Witness ==
    /\ tpc = "done"
    /\ tn = 3
    /\ Len(all_results) = 2
    /\ \E i \in 1..2 : Len(all_results[2].fold_results[i].val_indices) = 2

(***************************************************************************)
(* Claims about OutlierHandler                                             *)
(***************************************************************************)
\* C8: with method iqr, threshold 1.5 and strategy clip, after a transform
\* every non-missing value of a column that has stored bounds is a number
\* that is neither below the lower nor above the upper bound the handler
\* holds from fit (transform clips to the stored pair, not to one computed
\* from the table it is given).
C8_ClippedWithinFitBounds ==
    (ohLast.op = "transform" /\ oh.method = "iqr" /\ oh.threshold2 = 3 /\ oh.strategy = "clip") =>
        \A i \in 1..Len(ohLast.out) :
            LET col == ohLast.out[i]
            IN  (is_numeric_dtype(col) /\ col.name \in DOMAIN oh.outlier_bounds_) =>
                    \A r \in 1..Len(col.vals) :
                        IsNA(col.vals[r])
                          \/ (/\ col.vals[r].k = "num"
                              /\ ~BelowLower(col.vals[r].v, oh.outlier_bounds_[col.name])
                              /\ ~AboveUpper(col.vals[r].v, oh.outlier_bounds_[col.name]))

\* C8 witness: a transform returned a value equal to the stored upper bound,
\* a bound that is not a value any table holds, so the value was clipped.
C8_Witness ==
    /\ ohLast.op = "transform"
    /\ oh.method = "iqr" /\ oh.threshold2 = 3 /\ oh.strategy = "clip"
    /\ "c" \in DOMAIN oh.outlier_bounds_
    /\ oh.outlier_bounds_["c"].kind = "iqr"
    /\ Num(oh.outlier_bounds_["c"].hi) \notin OHCells
    /\ \E r \in 1..Len(ohLast.out[1].vals) :
          ohLast.out[1].vals[r] = Num(oh.outlier_bounds_["c"].hi)

(***************************************************************************)
(* Claims about AutoPreprocessor                                           *)
(***************************************************************************)
FittedOnlyOps ==
    {"transform", "transform_target", "inverse_transform_target",
     "get_feature_names_out", "get_preprocessing_report"}

\* C2: as long as no fit has returned normally, each of transform,
\* transform_target, inverse_transform_target, get_feature_names_out and
\* get_preprocessing_report raises the not-fitted error and returns no data.
C2_UnfittedCallsRaise ==
    (~apDone /\ apLast.op \in FittedOnlyOps) =>
        /\ apLast.status = "raised"
        /\ apLast.err = "ValueError" /\ apLast.msg = "not fitted"
        /\ apLast.ncols = 0 /\ apLast.nrows = 0

\* C2 witness: transform is rejected on a preprocessor whose only fit raised
\* inside pipeline.fit, after the pipeline had been assigned.
C2_Witness ==
    /\ ~apDone
    /\ apLast.op = "transform" /\ apLast.msg = "not fitted"
    /\ ap.pipeline # PipelineNone

\* C3: after fit_transform, the number of names get_feature_names_out
\* returns equals the number of columns of the matrix transform returned for
\* the same table.
C3_NamesMatchMatrixColumns ==
    (apLast.op = "fit_transform" /\ apLast.status = "ok") =>
        Len(ap.feature_names_out) = apLast.ncols

\* C4: in a transform, no column fit decided to be categorical is converted
\* to numbers, and no column fit decided to be numeric is left as text.
C4_TransformUsesFitDecision ==
    (apLast.op = "transform" /\ ap.is_fitted) =>
        /\ Range(ap.preprocessing_report.categorical_columns) \cap apLast.converted = {}
        /\ Range(ap.preprocessing_report.numeric_columns) \cap apLast.unconverted = {}

\* C5: on a fitted preprocessor, a transform of any table leaves every
\* attribute as it was, and a second transform of the same table returns
\* what the first returned.
C5_TransformKeepsFittedState ==
    (apLast = NoCall /\ ap.is_fitted) =>
        \A X \in APTables :
            \A r \in {APTransform(ap, X)} :
                /\ r.self = ap
                /\ APTransform(r.self, X) = r

\* C5 witness: a transform returned a matrix from a pipeline that holds
\* outlier bounds.
C5_Witness ==
    /\ apLast.op = "transform" /\ apLast.status = "ok" /\ apLast.ncols > 0
    /\ ap.is_fitted
    /\ ap.pipeline # PipelineNone
    /\ DOMAIN ap.pipeline.outlier_handler.outlier_bounds_ # {}

StepNames(steps) == [i \in 1..Len(steps) |-> steps[i].name]
\* names has no repeats and follows the order of order.
InOrder(names, order) ==
    /\ Range(names) \subseteq Range(order)
    /\ \A i, j \in 1..Len(names) :
          i < j => \E a, b \in 1..Len(order) : a < b /\ order[a] = names[i] /\ order[b] = names[j]

\* C7: in every pipeline built, the numeric steps are outlier handling, then
\* imputation, then scaling, each present only if enabled, and the
\* categorical steps are constant-fill imputation (if enabled), then the
\* encoder.
C7_StepOrder ==
    ap.pipeline # PipelineNone =>
        \A i \in 1..Len(ap.pipeline.transformers) :
            LET tr == ap.pipeline.transformers[i]
                names == StepNames(tr.steps)
            IN  IF tr.name = "num"
                THEN /\ InOrder(names, <<"outlier_handler", "imputer", "scaler">>)
                     /\ ("outlier_handler" \in Range(names)) = ap.cfg.handle_outliers
                     /\ ("imputer" \in Range(names)) = ap.cfg.handle_missing
                     /\ "scaler" \in Range(names) => ap.cfg.scaling_strategy # "none"
                ELSE /\ tr.name = "cat"
                     /\ Len(names) = (IF ap.cfg.handle_missing THEN 2 ELSE 1)
                     /\ names[Len(names)] \in RecognizedEncoding
                     /\ ap.cfg.handle_missing =>
                           /\ names[1] = "imputer"
                           /\ tr.steps[1].param = "constant"

\* C7 witness: a pipeline with all three numeric steps and both categorical
\* steps.
C7_Witness ==
    /\ ap.pipeline # PipelineNone
    /\ Len(ap.pipeline.transformers) = 2
    /\ Len(ap.pipeline.transformers[1].steps) = 3
    /\ Len(ap.pipeline.transformers[2].steps) = 2

\* C9: a preprocessor constructed with an unrecognized strategy name is
\* never fitted: construction or fit fails.
C9_UnknownStrategyFails ==
    (\/ ap.cfg.missing_strategy \notin RecognizedMissing
     \/ ap.cfg.scaling_strategy \notin RecognizedScaling
     \/ ap.cfg.outlier_method \notin RecognizedOutlier
     \/ ap.cfg.categorical_encoding \notin RecognizedEncoding)
        => ~ap.is_fitted

\* C10: fit and fit_transform called with a table without the target column
\* and without y raise; on a preprocessor no fit of which has returned, it
\* stays unfitted and a following transform of any table is rejected.
C10_NoTargetFitRaises ==
    (apLast.op \in {"fit", "fit_transform"} /\ apLast.no_target) =>
        /\ apLast.status = "raised"
        /\ apLast.err = "ValueError" /\ apLast.msg = "target not found"
        /\ ~apDone =>
              /\ ~ap.is_fitted
              /\ \A X \in APTables : APTransform(ap, X).msg = "not fitted"

\* C10 witness: fit_transform raised for the missing target on a
\* preprocessor that is still as constructed.
C10_Witness ==
    /\ apLast.op = "fit_transform" /\ apLast.no_target /\ apLast.status = "raised"
    /\ ap = AutoPreprocessorNew(ap.cfg)

(***************************************************************************)
(* Claims about train_from_api                                             *)
(***************************************************************************)
\* i before j in the log.
LoggedBefore(log, first, second) ==
    \E i, j \in 1..Len(log) : i < j /\ log[i] = first /\ log[j] = second

\* C11: a request naming a model family that is not a supported one never
\* reaches training and never gets a success result.
C11_UnknownFamilyIsFatal ==
    (\E i \in 1..Len(api.models_to_try) : api.models_to_try[i] \notin DOMAIN FrontendMapping)
        => /\ api.pc # "training"
           /\ ~api.result.success

\* C12: when train_models is called, no row of the table it is given has a
\* missing target and the table has at least 10 rows; a call that is left
\* with fewer than 10 rows reports failure without having called
\* train_models.  The rows left are never more than the input's rows with a
\* target.
C12_CleanTargetAndEnoughRows ==
    /\ api.rows <= notna_count(api.csv_target.vals)
    /\ "train_models" \in Range(api.log) =>
          /\ \A i \in 1..Len(api.train_args.target.vals) : ~IsNA(api.train_args.target.vals[i])
          /\ Len(api.train_args.target.vals) = api.rows
          /\ api.rows >= min_training_rows
    /\ (api.pc = "returned" /\ api.rows < min_training_rows) =>
          /\ ~api.result.success
          /\ "train_models" \notin Range(api.log)

\* C12 witness: training starts on exactly 10 rows after rows whose target
\* did not read as a number were dropped.
C12_Witness ==
    /\ api.pc = "training"
    /\ "warning: dropped rows" \in Range(api.log)
    /\ Len(api.train_args.target.vals) = min_training_rows
    /\ Len(api.csv_target.vals) > min_training_rows

\* C13: when training starts, a request for classification on a numeric
\* target with as many distinct values as rows is trained as regression, and
\* a request for regression on a target that is not numeric is trained as
\* classification; in both cases the switch was logged before train_models
\* was called.
C13_TaskTypeSwitched ==
    api.pc = "training" =>
        /\ (/\ api.task_type = "classification"
            /\ is_numeric_dtype(api.csv_target)
            /\ nunique(api.csv_target.vals) = Len(api.csv_target.vals))
              => /\ api.train_args.task_type = "regression"
                 /\ LoggedBefore(api.log, "warning: switching to regression", "train_models")
        /\ (api.task_type = "regression" /\ ~api.is_numeric)
              => /\ api.train_args.task_type = "classification"
                 /\ LoggedBefore(api.log, "warning: switching to classification", "train_models")

\* C13 witness: a classification request on a numeric target whose values
\* are all distinct has reached training as regression.
C13_Witness ==
    /\ api.pc = "training"
    /\ api.task_type = "classification"
    /\ is_numeric_dtype(api.csv_target)
    /\ nunique(api.csv_target.vals) = Len(api.csv_target.vals)
    /\ api.train_args.task_type = "regression"

(***************************************************************************)
(* Claims about the helper functions                                       *)
(***************************************************************************)
\* Every value is a whole number (missing values aside).
AllIntegral(vals) == \A i \in 1..Len(vals) : IsNA(vals[i]) \/ vals[i].v % Unit = 0

\* C14: detect_task_type returns classification for a non-numeric target,
\* classification for a numeric target of integer type or of integral floats
\* with at most 20 distinct values, and regression for every other numeric
\* target.
C14_DetectTaskTypeAsSpecified ==
    fn.op = "detect_task_type" =>
        fn.result = (IF ~is_numeric_dtype(fn.arg) THEN "classification"
                     ELSE IF (is_integer_dtype(fn.arg) \/ AllIntegral(fn.arg.vals))
                             /\ nunique(fn.arg.vals) <= 20
                     THEN "classification"
                     ELSE "regression")

\* C15: for a table of at most 20 rows the identifier heuristic returns no
\* column, whatever the column's name and values.
C15_SmallTableKeepsColumns ==
    (fn.op = "_identify_columns_to_drop" /\ fn.arg.X.n <= 20) => fn.result = <<>>

\* A string that holds a letter and a digit.
MixesLettersAndDigits(chars) ==
    /\ \E j \in 1..Len(chars) : isalpha(chars[j])
    /\ \E j \in 1..Len(chars) : isdigit(chars[j])

\* C18: the identifier heuristic returns a column exactly when its values
\* are all unique and non-missing and either the table has more than 20 rows
\* and the name holds an identifier token or the sampled values look
\* ID-like, or the name holds an identifier token and the sampled values
\* look ID-like; sampled values look ID-like when one of the first five is
\* longer than 8 characters or mixes letters and digits.
C18_IdHeuristicAsSpecified ==
    (fn.op = "_identify_columns_to_drop" /\ fn.arg.drop_id_columns) =>
        \A c \in 1..Len(fn.arg.X.cols) :
            LET col == fn.arg.X.cols[c]
                n == fn.arg.X.n
                unique == nunique(col.vals) = n /\ notna_count(col.vals) = n
                named == col.name \in {"id", "key", "uuid", "guid", "index", "pk"}
                id_like == \E i \in 1..(IF n < 5 THEN n ELSE 5) :
                              \/ Len(col.vals[i].v) > 8
                              \/ MixesLettersAndDigits(col.vals[i].v)
            IN  (col.name \in Range(fn.result))
                   <=> (unique /\ ((n > 20 /\ (named \/ id_like)) \/ (named /\ id_like)))

(***************************************************************************)
(* Claims about DataValidator                                              *)
(***************************************************************************)
\* C16: after fit and after transform the caller's table is what it was
\* before the call, and the table transform returns is another object than
\* the one it was given.
C16_CallerTableUntouched ==
    dvLast.op \in {"fit", "transform"} =>
        /\ dvLast.heap[1] = dvLast.before
        /\ dvLast.op = "transform" => dvLast.ret # 1

\* C16 witness: a transform to which no cleaning action applied returned a
\* table equal to its input, as another object.
C16_Witness ==
    /\ dvLast.op = "transform"
    /\ dvLast.ret # 1
    /\ dvLast.heap[dvLast.ret] = dvLast.before
    /\ dvLast.before.n = MaxRows

\* Number of rows of t that repeat an earlier row.
DuplicateRows(t) == Cardinality({r \in 1..t.n : duplicated(t, r)})

\* C17: fit stores the number of duplicate rows of its table (when removal
\* is enabled) and transform leaves the count alone; transform returns its
\* input without the duplicate rows if removal is enabled and the stored
\* count is positive, and otherwise returns as many rows as it was given.
C17_DuplicatesRemovedIfFitFoundAny ==
    /\ (dvLast.op = "fit" /\ dv.self.remove_duplicates) =>
          dv.self.duplicate_count_ = DuplicateRows(dvLast.before)
    /\ dvLast.op = "transform" =>
          /\ dv.self.duplicate_count_ = dvLast.self_before.duplicate_count_
          /\ dvLast.heap[dvLast.ret].n =
                (IF dv.self.remove_duplicates /\ dv.self.duplicate_count_ > 0
                 THEN dvLast.before.n - DuplicateRows(dvLast.before)
                 ELSE dvLast.before.n)

\* C17 witness: a transform returned fewer rows than it was given.
C17_Witness ==
    /\ dvLast.op = "transform"
    /\ dvLast.heap[dvLast.ret].n < dvLast.before.n

\* The fix recorded for a column, "" if none.
FixOf(fixes, name) == IF name \in DOMAIN fixes THEN fixes[name] ELSE ""

\* C19: a non-numeric column is marked for numeric conversion exactly when
\* at least 80% of its non-missing values read as numbers; a column not so
\* marked is marked for temporal conversion exactly when more than 50% of
\* its first (at most 100) non-missing values parse as a date.
C19_TypeFixAsSpecified ==
    fn.op = "_analyze_data_types" =>
        LET col == fn.arg.cols[1]
            present == DropNA(col.vals)
            numbers == Cardinality({i \in 1..Len(present) : present[i].k \in {"num", "numdate"}})
            sample == SubSeq(present, 1, IF Len(present) < 100 THEN Len(present) ELSE 100)
            dates == Cardinality({i \in 1..Len(sample) : sample[i].k \in {"date", "numdate"}})
            numeric == /\ col.dtype = "object" /\ Len(present) > 0
                       /\ numbers * 100 >= 80 * Len(present)
            temporal == /\ col.dtype = "object" /\ ~numeric /\ Len(sample) > 0
                        /\ dates * 100 > 50 * Len(sample)
        IN  /\ (FixOf(fn.result, col.name) = "to_numeric") <=> numeric
            /\ (FixOf(fn.result, col.name) = "to_datetime") <=> temporal

\* C20: for every trained model family the aggregated out-of-fold set holds
\* exactly one prediction per input row: all_predictions and all_actuals have
\* length n, position i of both is for the same row, every row has one
\* position, and the prediction of a row was made by the model of a fold whose
\* training indices do not contain that row.
C20_OneOutOfFoldPredictionPerRow ==
    \A m \in 1..Len(all_results) :
        LET res == all_results[m]
            p == res.all_predictions
            a == res.all_actuals
        IN  /\ Len(p) = tn
            /\ Len(a) = tn
            /\ \A i \in 1..Len(p) :
                  /\ i <= Len(a) /\ p[i].row = a[i].row
                  /\ \E j \in 1..Len(res.fold_results) :
                        /\ res.fold_results[j].fold_idx = p[i].fold_model.fold_idx
                        /\ res.fold_results[j].train_indices = p[i].fold_model.fitted_on
                        /\ p[i].row \notin Range(res.fold_results[j].train_indices)
            /\ \A r \in 0..(tn - 1) :
                  Cardinality({i \in 1..Len(p) : p[i].row = r}) = 1

\* A model trained on MaxTrainRows rows whose out-of-fold set is not in row
\* order: the first fold held out a later row than the second.
C20_Witness ==
    /\ tn = MaxTrainRows
    /\ Len(all_results) >= 1
    /\ Len(all_results[1].all_predictions) = MaxTrainRows
    /\ \E i \in 1..(MaxTrainRows - 1) :
          all_results[1].all_predictions[i].row > all_results[1].all_predictions[i + 1].row

\* C21: a model with a native importance gets the native importance and
\* permutation importance is not run for it; a model without one gets the
\* permutation importance, or None with a warning when permutation importance
\* raised; in every case the call returns to _train_single_model, which goes
\* on to build the family's result.
C21_NativeFirstPermutationNotFatal ==
    fn.op = "_calculate_feature_importance" =>
        /\ fn.arg.model.has_feature_importances
              => fn.result.value = "native" /\ fn.result.calls = <<>>
        /\ ~fn.arg.model.has_feature_importances
              => /\ fn.result.calls = <<"permutation_importance">>
                 /\ fn.result.value = (IF fn.arg.permutation_raises THEN "None" ELSE "permutation")
                 /\ fn.result.warnings = (IF fn.arg.permutation_raises THEN 1 ELSE 0)
        /\ fn.result.value \in {"native", "permutation", "None"}

\* The permutation fallback raised for a model without native importance.
C21_Witness ==
    /\ fn.op = "_calculate_feature_importance"
    /\ ~fn.arg.model.has_feature_importances
    /\ fn.arg.permutation_raises
    /\ fn.result.value = "None"

\* C22: when saving the trained model fails, by a failure result or by an
\* exception, train_from_api still returns success with the serialised results
\* of the training and the best model train_models chose; the failure shows
\* in export_result.
C22_SaveFailureKeepsResults ==
    (api.pc = "returned" /\ api.save \in {"failure result", "exception"}) =>
        /\ api.result.success
        /\ api.result.best_model = api.trained.best_model
        /\ api.result.all_models = api.trained.all_models
        /\ api.result.task_type = api.train_args.task_type
        /\ ~api.result.export_result.success
        /\ api.result.export_result.error # ""

\* A save that raised after a training of two families whose best model is
\* the second.
C22_Witness ==
    /\ api.pc = "returned"
    /\ api.save = "exception"
    /\ api.result.success
    /\ Len(api.trained.all_models) = 2
    /\ api.result.best_model = api.trained.all_models[2]
    /\ api.trained.all_models[1] # api.trained.all_models[2]

\* C23: with categorical_encoding "target" the target encoder is fitted on
\* the training target: no fit or fit_transform of such a preprocessor fails
\* because the encoder was given no target.
C23_TargetEncoderGetsTarget ==
    (apLast.op \in {"fit", "fit_transform"} /\ ap.cfg.categorical_encoding = "target")
        => apLast.err # "TypeError"

\* C24: a fit_transform that returns gives a matrix and a target vector with
\* the same number of rows, one per row of the table it was given.
C24_MatrixAndTargetAligned ==
    (apLast.op = "fit_transform" /\ apLast.status = "ok")
        => apLast.nrows = apLast.yrows /\ apLast.nrows = apLast.xrows

\* C25: a fit that raises on a fitted preprocessor leaves it fitted with the
\* pipeline, dropped_columns, feature_names_out, label_encoder and
\* preprocessing_report of the fit before it.
C25_FailedFitKeepsFittedState ==
    [][(ap.is_fitted /\ apLast'.op = "fit" /\ apLast'.status = "raised")
          => /\ ap'.is_fitted
             /\ ap'.pipeline = ap.pipeline
             /\ ap'.dropped_columns = ap.dropped_columns
             /\ ap'.feature_names_out = ap.feature_names_out
             /\ ap'.label_encoder = ap.label_encoder
             /\ ap'.preprocessing_report = ap.preprocessing_report]_vars

\* C26: a request for classification whose target, as given to training, is
\* one detect_task_type classifies as classification reaches training (which
\* takes at least 10 rows) as classification.
C26_ClassificationTargetKept ==
    (/\ api.pc = "training"
     /\ api.task_type = "classification"
     /\ Len(api.train_args.target.vals) >= min_training_rows
     /\ detect_task_type(api.train_args.target) = "classification")
        => api.train_args.task_type = "classification"

\* C27: the fold_results listed under best_model in the serialised results are
\* the fold results of the best model itself, as they are listed for that
\* model under all_models.
C27_BestModelFoldsAreItsOwn ==
    fn.op = "serialize_training_results" =>
        fn.result.best_model.fold_results = ModelData(fn.arg.best_model).fold_results

(***************************************************************************)
(* Claims about the HTTP server                                            *)
(***************************************************************************)
\* C28: however the background task and the client's opening of the stream
\* interleave, no event emitted for the session is dropped, and the stream
\* is never left open with nothing more to come: once the task is done and
\* the queue read, the client has had the terminal event.
C28_StreamGetsEveryEvent ==
    /\ sess.dropped = <<>>
    /\ (sess.task = "done" /\ sess.stream = "open" /\ sess.queue = <<>>)
          => \E i \in 1..Len(sess.received) : sess.received[i] \in {"complete", "error"}

\* C29: a session's status moves from starting to running to completed or
\* error, and a session whose script ran to its exit on a CSV and config on
\* which train_from_api succeeds ends in completed.
C29_AsyncSessionCompletes ==
    /\ sess.statuses \in {<<>>, <<"starting">>, <<"starting", "running">>, <<"starting", "error">>,
                          <<"starting", "running", "completed">>,
                          <<"starting", "running", "error">>}
    /\ (sess.task = "done" /\ ~sess.raised /\ sess.train_ok) => sess.status = "completed"

\* C30: the temporary CSV file of a /train request is deleted when the
\* request returns, and that of a /train_async session when the session is
\* completed or in error.
C30_TemporaryFilesDeleted ==
    /\ (req.pc = "returned" /\ req.file # "none") => req.file = "deleted"
    /\ sess.status \in {"completed", "error"} => sess.file = "deleted"

====
